---- MODULE Spec2Model ----
(***************************************************************************)
(* rss2telegram: the deduplication store (internal/storage) and the        *)
(* delivery pipeline (internal/rss) as a state machine.                    *)
(*                                                                         *)
(* Strings that the program splits or encodes (channel handles, feed URLs, *)
(* file names) are sequences of one-character strings; item fields and     *)
(* item ids are plain strings.  Time is counted in units of 30 days, so    *)
(* the 30-day state expiration is 1 unit.                                  *)
(***************************************************************************)
EXTENDS Naturals, Integers, Sequences, FiniteSets, TLC

VARIABLES
    states,      \* Storage.states: feedURL -> channel -> ChannelState
    files,       \* the data directory: file name -> file content
    now,         \* the wall clock (time.Now), in units of 30 days
    startedAt,   \* the time at which the running store was built by NewStorage
    ioFaults,    \* environment: whether writes to the data directory may fail
    saving,      \* the saveChannelState call in flight, and how far it has got
    startErr,    \* whether the latest NewStorage returned an error (and no store)
    call,        \* a call of one of the program's pure functions: its input and result
    mutex,       \* Storage's sync.RWMutex: the goroutine holding it exclusively, or 0,
                 \* and the goroutines holding it in shared mode
    callers,     \* the goroutines calling the store's methods step by step
    ctxDone,     \* main's context has been cancelled (ctx.Done() is closed)
    tickerC,     \* the ticks buffered in ticker.C (a channel of capacity 1)
    mainPc,      \* where main's loop is
    hConfig,     \* RssHandler.config
    config,      \* cfg, the configuration a ProcessFeeds call read from RssHandler.config
    variant,     \* which of the two handler sources is running
    source,      \* environment: the payloads the feed server may return
    running,     \* a ProcessFeeds call is in flight
    feed,        \* per configured feed: the state of its processFeed goroutine
    tasks,       \* per configured feed: its delivery goroutines, in spawn order
    errors,      \* errChan: the errors of the feeds whose processFeed failed
    everMarked,  \* history: <<feedURL, channel, id>> ever passed to MarkItemSeen
    procMarked,  \* history: the same, since the last NewStorage
    marks,       \* history: number of MarkItemSeen calls made so far
    cycles,      \* history: number of ProcessFeeds calls made so far
    lastPos,     \* history: per feed and channel, list position of the last Send
    sentOK,      \* history: <<feedURL, channel, id>> with a successful Send
    sentTwice,   \* history: <<feedURL, channel, id>> with two successful Sends
    retryDue     \* history: <<feed, channel index, item>> exhausted last cycle

storeVars == <<states, files, now, startedAt, ioFaults, saving, startErr>>

\* the configuration and environment, and the variables that only the
\* specifications of single functions and of the store's lock change
envVars == <<ctxDone, tickerC, mainPc, hConfig, config, variant, source, call, mutex, callers>>

\* main's loop, its context and ticker, and the handler's configuration
mainVars == <<ctxDone, tickerC, mainPc, hConfig>>

pipeVars == <<running, feed, tasks, errors>>

histVars == <<everMarked, procMarked, marks, cycles, lastPos, sentOK, sentTwice, retryDue>>

vars == <<states, files, now, startedAt, ioFaults, saving, startErr, call, mutex, callers,
          ctxDone, tickerC, mainPc, hConfig, config, variant, source,
          running, feed, tasks, errors, everMarked, procMarked, marks, cycles,
          lastPos, sentOK, sentTwice, retryDue>>

-----------------------------------------------------------------------------
(* Bounds of the model *)

MaxNow == 2      \* the clock stops advancing here
MaxMarks == 3    \* MarkItemSeen calls explored by the store specification
MaxCycles == 2   \* polling cycles explored by the pipeline specifications

-----------------------------------------------------------------------------
(* Universe of the model *)

FeedURLs == { <<"u", "1">>, <<"u", "2">> }
Channels == { <<"@", "a">>, <<"@", "b">> }
ItemIDs == { "g1", "g2", "l3" }

\* the MarkItemSeen calls the store specification explores: every id on one
\* channel of a feed, one id on its other channel, and one bucket of a
\* second feed
MarkArgs ==
    ({ <<"u", "1">> } \X { <<"@", "a">> } \X ItemIDs)
        \cup { << <<"u", "1">>, <<"@", "b">>, "g1" >>, << <<"u", "2">>, <<"@", "a">>, "g1" >> }

\* storage.go:26, 30 days in units of 30 days
stateExpirationDuration == 1

bloomFileSuffix == <<".bloom">>

-----------------------------------------------------------------------------
(* bloom.BloomFilter: a set of bit positions; an id occupies the positions *)
(* its hash functions select.  The table stands for the library's hashes;  *)
(* "l3" shares each of its positions with another id, so a false positive  *)
(* is possible, as it is in the library.                                   *)

FilterBits == {1, 2, 3}

BloomLocations(id) ==
    CASE id = "g1" -> {1, 2}
      [] id = "g2" -> {2, 3}
      [] id = "l3" -> {1, 3}
      [] OTHER -> {1}

\* bloom.NewWithEstimates(expectedItems, falsePositive)
BloomNew == {}

\* filter.Add
BloomAdd(filter, id) == filter \cup BloomLocations(id)

\* filter.Test
BloomTestAny(filter, id) == BloomLocations(id) \cap filter # {}

BloomTest(filter, id) == BloomLocations(id) \subseteq filter

-----------------------------------------------------------------------------
(* File names: base64.URLEncoding of channel + "|" + feedURL, plus suffix. *)
(* The encoding is modelled symbol by symbol (the base64 text of each      *)
(* byte), which keeps it reversible and keeps the order of the encoded     *)
(* names, which is the order filepath.Glob returns them in.                *)

Base64Symbol(ch) ==
    CASE ch = "1" -> "MQ"
      [] ch = "2" -> "Mg"
      [] ch = "@" -> "QA"
      [] ch = "a" -> "YQ"
      [] ch = "b" -> "Yg"
      [] ch = "u" -> "dQ"
      [] ch = "|" -> "fA"
      [] OTHER -> "??"

Base64Alphabet == {"MQ", "Mg", "QA", "YQ", "Yg", "dQ", "fA"}

Base64Plain(sym) ==
    CASE sym = "MQ" -> "1"
      [] sym = "Mg" -> "2"
      [] sym = "QA" -> "@"
      [] sym = "YQ" -> "a"
      [] sym = "Yg" -> "b"
      [] sym = "dQ" -> "u"
      [] sym = "fA" -> "|"
      [] OTHER -> "?"

\* byte order of the encoded text, as sort.Strings compares it
SymbolRank(sym) ==
    CASE sym = "MQ" -> 1
      [] sym = "Mg" -> 2
      [] sym = "QA" -> 3
      [] sym = "YQ" -> 4
      [] sym = "Yg" -> 5
      [] sym = "dQ" -> 6
      [] sym = "fA" -> 7
      [] OTHER -> 8

EncodeToString(data) == [i \in 1..Len(data) |-> Base64Symbol(data[i])]

DecodeString(encoded) ==
    IF \A i \in 1..Len(encoded) : encoded[i] \in Base64Alphabet
    THEN [err |-> FALSE, val |-> [i \in 1..Len(encoded) |-> Base64Plain(encoded[i])]]
    ELSE [err |-> TRUE, val |-> <<>>]

GenerateBloomFileName(feedURL, channel) ==
    EncodeToString(channel \o <<"|">> \o feedURL)

GetBloomFilePath(feedURL, channel) ==
    GenerateBloomFileName(feedURL, channel) \o bloomFileSuffix

HasSuffix(name, suffix) ==
    /\ Len(name) >= Len(suffix)
    /\ SubSeq(name, Len(name) - Len(suffix) + 1, Len(name)) = suffix

TrimSuffix(name, suffix) ==
    IF HasSuffix(name, suffix) THEN SubSeq(name, 1, Len(name) - Len(suffix)) ELSE name

\* strings.SplitN(s, "|", 2)
SplitN2(s) ==
    LET bars == {i \in 1..Len(s) : s[i] = "|"}
    IN  IF bars = {} THEN <<s>>
        ELSE LET k == CHOOSE i \in bars : \A j \in bars : i <= j
             IN  <<SubSeq(s, 1, k - 1), SubSeq(s, k + 1, Len(s))>>

RECURSIVE NameLess(_, _)
NameLess(a, b) ==
    IF a = <<>> THEN b # <<>>
    ELSE IF b = <<>> THEN FALSE
    ELSE IF Head(a) = Head(b) THEN NameLess(Tail(a), Tail(b))
    ELSE SymbolRank(Head(a)) < SymbolRank(Head(b))

RECURSIVE SortNames(_)
SortNames(S) ==
    IF S = {} THEN <<>>
    ELSE LET m == CHOOSE x \in S : \A y \in S \ {x} : NameLess(x, y)
         IN  <<m>> \o SortNames(S \ {m})

\* filepath.Glob(dataDir/*.bloom): the matching names, sorted
Glob(fs) == SortNames({n \in DOMAIN fs : HasSuffix(n, bloomFileSuffix)})

-----------------------------------------------------------------------------
(* Storage *)

HasFeed(st, feedURL) == feedURL \in DOMAIN st

HasBucket(st, feedURL, channel) ==
    /\ feedURL \in DOMAIN st
    /\ channel \in DOMAIN st[feedURL]

\* map assignment m[k] = v
MapPut(m, k, v) == [x \in DOMAIN m \cup {k} |-> IF x = k THEN v ELSE m[x]]

EmptyMap == [x \in {} |-> {}]

\* no pure function is being called
NoCall == [op |-> "none"]

\* the goroutines of the lock specification
Threads == {1, 2, 3}

\* the RWMutex held by nobody
Unlocked == [writer |-> 0, readers |-> {}]

IdleCaller == [op |-> "none", pc |-> "idle"]

NoCallers == [t \in Threads |-> IdleCaller]

\* no saveChannelState call is in flight
NoSave == [pc |-> "none"]

\* &ChannelState{filter: NewWithEstimates(..), updatedAt: time.Now()}
\* ids is a history field: the ids whose positions the filter holds
FreshState(t) == [filter |-> BloomNew, updatedAt |-> t, ids |-> {}]

\* time.Time{}, which is before every time of the model
zeroTime == 0 - 1

\* GetLastUpdated (lines 280-290)
GetLastUpdated(feedURL, channel) ==
    IF HasBucket(states, feedURL, channel) THEN states[feedURL][channel].updatedAt
    ELSE zeroTime

IsItemSeen(feedURL, channel, itemID) ==
    IF ~HasFeed(states, feedURL) THEN FALSE
    ELSE IF channel \notin DOMAIN states[feedURL] THEN FALSE
    ELSE BloomTest(states[feedURL][channel].filter, itemID)

\* the in-memory part of MarkItemSeen (lines 126-143): the new states map
MarkItemSeenWipe(st, feedURL, channel, itemID, t) ==
    LET state == IF HasBucket(st, feedURL, channel) THEN st[feedURL][channel]
                 ELSE FreshState(t)
        marked == [filter |-> BloomAdd(state.filter, itemID),
                   updatedAt |-> t,
                   ids |-> state.ids \cup {itemID}]
        channelStates == IF HasBucket(st, feedURL, channel) THEN st[feedURL]
                         ELSE EmptyMap
    IN  MapPut(st, feedURL, MapPut(channelStates, channel, marked))

\* a mark that starts the bucket's filter afresh
MarkItemSeenForget(st, feedURL, channel, itemID, t) ==
    LET channelStates == IF HasFeed(st, feedURL) THEN st[feedURL] ELSE EmptyMap
        marked == [filter |-> BloomAdd(BloomNew, itemID), updatedAt |-> t, ids |-> {itemID}]
    IN  MapPut(st, feedURL, MapPut(channelStates, channel, marked))

MarkItemSeenMem(st, feedURL, channel, itemID, t) ==
    LET channelStates == IF HasFeed(st, feedURL) THEN st[feedURL] ELSE EmptyMap
        state == IF channel \in DOMAIN channelStates THEN channelStates[channel]
                 ELSE FreshState(t)
        marked == [filter |-> BloomAdd(state.filter, itemID),
                   updatedAt |-> t,
                   ids |-> state.ids \cup {itemID}]
    IN  MapPut(st, feedURL, MapPut(channelStates, channel, marked))

\* a save that writes the temp file and never renames it
saveChannelStateNoRename(fs, feedURL, channel, state, t) ==
    MapPut(fs, GetBloomFilePath(feedURL, channel) \o <<".tmp">>,
           [ts |-> t, filter |-> state.filter, ids |-> state.ids, data |-> "full"])

\* saveChannelState when every step succeeds: the temp file is written and
\* renamed over the bucket file
saveChannelState(fs, feedURL, channel, state, t) ==
    MapPut(fs, GetBloomFilePath(feedURL, channel),
           [ts |-> t, filter |-> state.filter, ids |-> state.ids, data |-> "full"])

\* a MarkItemSeen that undoes its change of the bucket when the save fails
MarkItemSeenStoreRollback(store, feedURL, channel, itemID, saved, t) ==
    IF saved
    THEN LET st == MarkItemSeenMem(store.states, feedURL, channel, itemID, t)
         IN  [states |-> st,
              files |-> saveChannelState(store.files, feedURL, channel,
                                         st[feedURL][channel], t)]
    ELSE store

\* MarkItemSeen on the store [states, files] at time t; saved tells whether
\* saveChannelState succeeded (an I/O error leaves the bucket file as it was,
\* and the id stays added in memory)
MarkItemSeenStore(store, feedURL, channel, itemID, saved, t) ==
    LET st == MarkItemSeenMem(store.states, feedURL, channel, itemID, t)
    IN  [states |-> st,
         files |-> IF saved
                   THEN saveChannelState(store.files, feedURL, channel,
                                         st[feedURL][channel], t)
                   ELSE store.files]

\* How much of a bucket file is there (its data field): "short" is fewer
\* than the 8 bytes of the timestamp, "ts" is the timestamp and nothing
\* else, "partial" is the timestamp and filter bytes that do not unmarshal
\* (a truncated or damaged filter), "full" is the timestamp and a whole
\* marshalled filter.
FileData == {"short", "ts", "partial", "full"}

\* a load that passes over the file, whatever it holds
loadChannelStateSkip(st, fs, feedURL, channel, t) == [err |-> FALSE, states |-> st]

\* loadChannelState: [err, states]
loadChannelState(st, fs, feedURL, channel, t) ==
    LET filepath == GetBloomFilePath(feedURL, channel)
        reset == MapPut(st, feedURL, MapPut(EmptyMap, channel, FreshState(t)))
    IN  IF filepath \notin DOMAIN fs
        THEN [err |-> FALSE, states |-> reset]
        ELSE IF fs[filepath].data = "short"
        THEN [err |-> TRUE, states |-> st]
        ELSE IF t - fs[filepath].ts > stateExpirationDuration
        THEN [err |-> FALSE, states |-> reset]
        ELSE IF fs[filepath].data = "ts"
        THEN [err |-> TRUE, states |-> st]
        ELSE IF fs[filepath].data = "partial"
        THEN [err |-> TRUE, states |-> st]
        ELSE LET channelStates == IF HasFeed(st, feedURL) THEN st[feedURL]
                                  ELSE EmptyMap
                 loaded == [filter |-> fs[filepath].filter,
                            updatedAt |-> fs[filepath].ts,
                            ids |-> fs[filepath].ids]
             IN  [err |-> FALSE,
                  states |-> MapPut(st, feedURL, MapPut(channelStates, channel, loaded))]

RECURSIVE LoadFiles(_, _, _, _)
LoadFiles(names, st, fs, t) ==
    IF names = <<>> THEN [err |-> FALSE, states |-> st]
    ELSE LET filename == Head(names)
             decoded == DecodeString(TrimSuffix(filename, bloomFileSuffix))
             parts == SplitN2(decoded.val)
         IN  IF decoded.err THEN [err |-> TRUE, states |-> EmptyMap]
             ELSE IF Len(parts) # 2 THEN LoadFiles(Tail(names), st, fs, t)
             ELSE LET r == loadChannelState(st, fs, parts[2], parts[1], t)
                  IN  IF r.err THEN [err |-> TRUE, states |-> EmptyMap]
                      ELSE LoadFiles(Tail(names), r.states, fs, t)

\* NewStorage(dataDir): [err, states]
NewStorage(fs, t) == LoadFiles(Glob(fs), EmptyMap, fs, t)

-----------------------------------------------------------------------------
(* Feed items (gofeed.Item) *)

Item(guid, link, title, published, parsed, description) ==
    [GUID |-> guid, Link |-> link, Title |-> title, Published |-> published,
     PublishedParsed |-> parsed, Description |-> description, Content |-> ""]

\* the items a feed server may return; PublishedParsed is {} (nil) or {time}
ItemPool ==
    << Item("g1", "L1", "T1", "P1", {0}, "D1"),
       Item("g2", "L2", "T2", "P2", {-1}, ""),
       Item("", "l3", "T3", "", {}, "D3"),
       Item("", "", "", "", {}, "D4"),
       Item("g1", "L5", "T5", "", {}, "D5") >>

\* the feed payloads (sequences of ItemPool indices) a fetch may return
Payloads == { <<>>, <<1>>, <<3>>, <<1, 2>>, <<3, 4>>, <<3, 1>>, <<1, 5>>, <<1, 4>>, <<1, 2, 3>> }

\* hex of sha256.Sum256: an injective digest
Sha256Hex(content) == "sha(" \o content \o ")"

\* the chain with the link ahead of the GUID
generateItemIDLinkFirst(item) ==
    IF item.Link # "" THEN item.Link
    ELSE IF item.GUID # "" THEN item.GUID
    ELSE IF item.Title # "" /\ item.Published # ""
    THEN item.Title \o "|" \o item.Published
    ELSE "content:" \o Sha256Hex(item.Content)

generateItemID(item) ==
    IF item.GUID # "" THEN item.GUID
    ELSE IF item.Link # "" THEN item.Link
    ELSE IF item.Title # "" /\ item.Published # ""
    THEN item.Title \o "|" \o item.Published
    ELSE "content:" \o Sha256Hex(item.Content)

ItemIDOf(n) == generateItemID(ItemPool[n])

\* A template is the sequence of its placeholders; the text between them is
\* white space.  The message is the concatenation of the substituted fields,
\* which is all that strings.TrimSpace leaves.
FieldValue(item, field) ==
    CASE field = "title" -> item.Title
      [] field = "link" -> item.Link
      [] field = "description" -> item.Description
      [] field = "content" -> item.Content
      [] field = "pubDate" -> IF item.PublishedParsed # {} THEN "date" ELSE ""
      [] OTHER -> ""

RECURSIVE Substitute(_, _)
Substitute(item, fields) ==
    IF fields = <<>> THEN ""
    ELSE FieldValue(item, Head(fields)) \o Substitute(item, Tail(fields))

formatMessage(item, template) ==
    Substitute(item, IF template = <<>> THEN <<"title", "link">> ELSE template)

-----------------------------------------------------------------------------
(* Configuration *)

FeedConfig(name, url, channels, firstPush, hours, template) ==
    [Name |-> name, URL |-> url, Channels |-> channels, FirstPush |-> firstPush,
     ArticleExpirationDurationHours |-> hours, Template |-> template]

Config(feeds) ==
    [Telegram |-> [BotToken |-> "token", CheckInterval |-> 1], Feeds |-> feeds]

chA == <<"@", "a">>
chB == <<"@", "b">>
url1 == <<"u", "1">>

CfgOneChannel == Config(<< FeedConfig("n1", url1, <<chA>>, TRUE, {}, <<>>) >>)
CfgTwoChannels == Config(<< FeedConfig("n1", url1, <<chA, chB>>, TRUE, {}, <<>>) >>)
CfgExpiring == Config(<< FeedConfig("n1", url1, <<chA>>, TRUE, {1}, <<"description">>) >>)
CfgNoFirstPush == Config(<< FeedConfig("n1", url1, <<chA>>, FALSE, {}, <<>>) >>)
CfgSameChannelTwice == Config(<< FeedConfig("n1", url1, <<chA, chA>>, TRUE, {}, <<>>) >>)
CfgSameURLTwice ==
    Config(<< FeedConfig("n1", url1, <<chA>>, TRUE, {}, <<>>),
              FeedConfig("n2", url1, <<chA>>, TRUE, {}, <<>>) >>)
url2 == <<"u", "2">>
CfgThreeFeeds ==
    Config(<< FeedConfig("n1", url1, <<chA>>, TRUE, {}, <<>>),
              FeedConfig("n2", url2, <<chA>>, TRUE, {}, <<>>),
              FeedConfig("n3", url2, <<chB>>, TRUE, {}, <<"description">>) >>)

CfgNoChannel == Config(<< FeedConfig("n1", url1, <<>>, TRUE, {}, <<>>) >>)
CfgSameNameTwice ==
    Config(<< FeedConfig("n1", url1, <<chA>>, TRUE, {}, <<>>),
              FeedConfig("n1", url1, <<chB>>, TRUE, {}, <<>>) >>)

\* a configuration file with the payloads its feed server returns
Scenario(c, payloads) == [config |-> c, payloads |-> payloads]

Scenarios ==
    { Scenario(CfgOneChannel, {<<>>, <<1, 2>>, <<3, 1>>, <<1, 2, 3>>}),
      Scenario(CfgTwoChannels, {<<1>>, <<3>>}),
      Scenario(CfgExpiring, {<<1, 2>>, <<3, 4>>, <<1, 5>>}),
      Scenario(CfgNoFirstPush, {<<1>>, <<3, 1>>, <<1, 4>>}),
      Scenario(CfgSameChannelTwice, {<<1>>}),
      Scenario(CfgSameURLTwice, {<<1>>}),
      Scenario(CfgNoChannel, {<<1>>}),
      Scenario(CfgSameNameTwice, {<<1>>}) }

\* Config.Validate returns nil
Validate(c) ==
    /\ c.Telegram.BotToken # ""
    /\ c.Telegram.CheckInterval > 0
    /\ Len(c.Feeds) # 0
    /\ \A i \in 1..Len(c.Feeds) :
          /\ c.Feeds[i].Name # ""
          /\ c.Feeds[i].URL # <<>>
          /\ Len(c.Feeds[i].Channels) # 0
          /\ \A j \in 1..(i - 1) :
                /\ c.Feeds[j].Name # c.Feeds[i].Name
                /\ <<c.Feeds[j].Name, c.Feeds[j].URL>> # <<c.Feeds[i].Name, c.Feeds[i].URL>>

\* the two handler sources: part_002 (first-run detection, one send at a time)
\* and internal/rss/handler.go (no first-run detection, two sends at a time)
Variants == {"firstrun", "legacy"}

-----------------------------------------------------------------------------
(* The pipeline's constants and helpers *)

Feeds == 1..Len(config.Feeds)

\* ProcessFeeds: semaphore := make(chan struct{}, 2)
feedSemCapThree == 2 + 1

feedSemCap == 2

\* processFeed: sem := make(chan struct{}, 1) resp. make(chan struct{}, 2)
channelSemCapWide == IF variant = "firstrun" THEN 2 ELSE 3

\* a send semaphore without a slot
channelSemCapNone == 1 - 1

channelSemCap == IF variant = "firstrun" THEN 1 ELSE 2

\* handler.go: articleExpirationDuration, 30 days in units of 30 days
articleExpirationDuration == 1

\* outcome, prev and prevSuppressed are history fields: how the feed's
\* processFeed call of the cycle ended ("none" while it has not), and the
\* payload of the feed's preceding cycle and whether that cycle was a
\* suppressed first run
InitFeed ==
    [pc |-> "none", payload |-> <<>>, idx |-> 0, ci |-> 0, isFirstRun |-> FALSE,
     newItems |-> <<>>, seenInThisRun |-> {},
     outcome |-> "none", prev |-> <<>>, prevSuppressed |-> FALSE]

\* the locals of processFeed are gone when it returns; the history stays
EndFeed(outcome, payload, suppressed) ==
    [InitFeed EXCEPT !.pc = "done", !.outcome = outcome,
                     !.prev = payload, !.prevSuppressed = suppressed]

\* an entry that does not carry the feed name
FeedErrorAnonymous(name) == [feed |-> "", err |-> "fetch"]

\* fmt.Errorf("feed %s: %w", feed.Name, err)
FeedError(name) == [feed |-> name, err |-> "fetch"]

NewTask(ch, n, pos) ==
    [channel |-> ch, item |-> n, pos |-> pos, pc |-> "blocked", i |-> 0,
     sends |-> 0, sleeps |-> 0, markCalls |-> 0, sendSuccess |-> FALSE]

FeedsInside == {k \in Feeds : feed[k].pc \in {"fetch", "filter", "sort", "dispatch", "wait"}}

Holding(k) ==
    {t \in 1..Len(tasks[k]) :
        tasks[k][t].pc \in {"send", "backoff", "after", "cooldown", "exit"}}

SaveOutcomes == IF ioFaults THEN BOOLEAN ELSE {TRUE}

\* the stale test of the candidate filter (time.Since(*item.PublishedParsed))
IsStale(fc, item) ==
    /\ item.PublishedParsed # {}
    /\ \E p \in item.PublishedParsed :
          IF variant = "firstrun"
          THEN \E h \in fc.ArticleExpirationDurationHours : now - p > h
          ELSE now - p > articleExpirationDuration

\* the first-run probe: no bloom file exists for any channel of the feed
IsFirstRunAlways(fc) == TRUE

IsFirstRun(fc) ==
    /\ variant = "firstrun"
    /\ \A c \in 1..Len(fc.Channels) :
          GetBloomFilePath(fc.URL, fc.Channels[c]) \notin DOMAIN files

AllChannelsProcessedAlways(fc, itemID) == TRUE

\* only the first channel of the feed is asked
AllChannelsProcessedFirst(fc, itemID) ==
    fc.Channels # <<>> /\ IsItemSeen(fc.URL, fc.Channels[1], itemID)

AllChannelsProcessedAny(fc, itemID) ==
    \E c \in 1..Len(fc.Channels) : IsItemSeen(fc.URL, fc.Channels[c], itemID)

AllChannelsProcessed(fc, itemID) ==
    \A c \in 1..Len(fc.Channels) : IsItemSeen(fc.URL, fc.Channels[c], itemID)

\* an ordering pass that hands the surviving items on in their feed order
OrderedListsFeedOrder(newItems) == {newItems}

\* the ordering pass: the results sort.Slice may produce (it is not stable,
\* so items with equal times may come out in any order), then the items
\* without a time in their feed order
TimeOf(n) == CHOOSE p \in ItemPool[n].PublishedParsed : TRUE

OrderedLists(newItems) ==
    LET HasTime(n) == ItemPool[n].PublishedParsed # {}
        NoTime(n) == ItemPool[n].PublishedParsed = {}
        withTime == SelectSeq(newItems, HasTime)
        withoutTime == SelectSeq(newItems, NoTime)
        S == {withTime[i] : i \in 1..Len(withTime)}
        sorted == {w \in [1..Len(withTime) -> S] :
                      /\ \A i, j \in 1..Len(withTime) : i # j => w[i] # w[j]
                      /\ \A i, j \in 1..Len(withTime) :
                            i < j => ~(TimeOf(w[j]) < TimeOf(w[i]))}
    IN  {w \o withoutTime : w \in sorted}

\* maxRetries := 3
maxRetriesPlusOne == 3 + 1

maxRetries == 3

\* if i == maxRetries-1 { break }
LastAttemptNever(i) == FALSE

LastAttempt(i) == i = maxRetries - 1

\* if sendSuccess { MarkItemSeen ... }
ShouldMarkAlways(task) == TRUE

ShouldMarkNever(task) == FALSE

ShouldMark(task) == task.sendSuccess

\* item n is in the payload feed k fetched in the cycle under way
Fetched(k, n) == \E i \in 1..Len(feed[k].payload) : feed[k].payload[i] = n

\* the <<feed, channel, item>> of the delivery tasks of feed k that ended
\* without a successful Send
Exhausted(k) ==
    { <<k, tasks[k][t].channel, tasks[k][t].item>> :
        t \in {u \in 1..Len(tasks[k]) :
                  tasks[k][u].pc = "done" /\ ~tasks[k][u].sendSuccess} }

-----------------------------------------------------------------------------
(* Actions of the store *)

\* a call of MarkItemSeen(feedURL, _, channel, itemID) on the running store
MarkItemSeen(feedURL, channel, itemID, saved) ==
    /\ LET r == MarkItemSeenStore([states |-> states, files |-> files],
                                  feedURL, channel, itemID, saved, now)
       IN  states' = r.states /\ files' = r.files
    /\ everMarked' = everMarked \cup {<<feedURL, channel, itemID>>}
    /\ procMarked' = procMarked \cup {<<feedURL, channel, itemID>>}

StoreMark ==
    /\ ~running
    /\ marks < MaxMarks
    /\ \E args \in MarkArgs, saved \in SaveOutcomes :
          MarkItemSeen(args[1], args[2], args[3], saved)
    /\ marks' = marks + 1
    /\ UNCHANGED <<now, startedAt, ioFaults, saving, startErr, envVars, pipeVars,
                   cycles, lastPos, sentOK, sentTwice, retryDue>>

\* time passes (between polling cycles)
Tick ==
    /\ ~running
    /\ now < MaxNow
    /\ now' = now + 1
    /\ UNCHANGED <<states, files, startedAt, ioFaults, saving, startErr, envVars,
                   pipeVars, histVars>>

\* the process ends and a new one builds its store from the data directory
Restart ==
    /\ ~running
    /\ ~NewStorage(files, now).err
    /\ states' = NewStorage(files, now).states
    /\ startedAt' = now
    /\ procMarked' = {}
    /\ UNCHANGED <<files, now, ioFaults, saving, startErr, envVars, pipeVars,
                   everMarked, marks,
                   cycles, lastPos, sentOK, sentTwice, retryDue>>

-----------------------------------------------------------------------------
(* Actions of the pipeline *)

\* ProcessFeeds is called: one goroutine per configured feed; the cycles are
\* counted when their number is bounded
ProcessFeedsStart(bounded) ==
    /\ ~running
    /\ bounded => cycles < MaxCycles
    /\ cycles' = IF bounded THEN cycles + 1 ELSE cycles
    /\ running' = TRUE
    /\ feed' = [k \in Feeds |->
                   [InitFeed EXCEPT !.pc = "spawned", !.prev = feed[k].prev,
                                    !.prevSuppressed = feed[k].prevSuppressed]]
    /\ errors' = <<>>
    /\ UNCHANGED <<storeVars, envVars, tasks, everMarked, procMarked, marks,
                   lastPos, sentOK, sentTwice, retryDue>>

\* the feed goroutine gets a slot of ProcessFeeds' semaphore
FeedAcquire(k) ==
    /\ running
    /\ feed[k].pc = "spawned"
    /\ Cardinality(FeedsInside) < feedSemCap
    /\ feed' = [feed EXCEPT ![k].pc = "fetch"]
    /\ UNCHANGED <<storeVars, envVars, running, tasks, errors, histVars>>

\* parser.ParseURL fails: processFeed returns the error, which goes to errChan
FeedFetchErrorAbort(k) ==
    /\ feed[k].pc = "fetch"
    /\ source.mayFail
    /\ feed' = [j \in DOMAIN feed |-> EndFeed("failed", <<>>, FALSE)]
    /\ errors' = Append(errors, FeedError(config.Feeds[k].Name))
    /\ UNCHANGED <<storeVars, envVars, running, tasks, everMarked, procMarked,
                   marks, cycles, lastPos, sentOK, sentTwice, retryDue>>

FeedFetchError(k) ==
    /\ feed[k].pc = "fetch"
    /\ source.mayFail
    /\ feed' = [feed EXCEPT ![k] = EndFeed("failed", <<>>, FALSE)]
    /\ errors' = Append(errors, FeedError(config.Feeds[k].Name))
    /\ UNCHANGED <<storeVars, envVars, running, tasks, everMarked, procMarked,
                   marks, cycles, lastPos, sentOK, sentTwice, retryDue>>

\* parser.ParseURL returns a payload; an empty one ends the feed's cycle;
\* otherwise the first-run probe is made
FeedFetch(k) ==
    /\ feed[k].pc = "fetch"
    /\ \E payload \in source.payloads :
          /\ feed' = [feed EXCEPT ![k] =
                         IF payload = <<>> THEN EndFeed("empty", <<>>, FALSE)
                         ELSE [@ EXCEPT !.pc = "filter", !.payload = payload, !.idx = 1,
                                        !.isFirstRun = IsFirstRun(config.Feeds[k])]]
    /\ UNCHANGED <<storeVars, envVars, running, tasks, errors, everMarked, procMarked,
                   marks, cycles, lastPos, sentOK, sentTwice, retryDue>>

\* after the body of the candidate loop for one item: the next item, or the
\* ordering pass
FilterAdvance(f) ==
    IF f.idx = Len(f.payload) THEN [f EXCEPT !.pc = "sort"]
    ELSE [f EXCEPT !.idx = f.idx + 1]

\* the first-run branch (lines 167-171): MarkItemSeen for every channel, in
\* order; saved[c] tells whether the c-th call could write its file
RECURSIVE MarkEach(_, _, _, _, _, _)
MarkEach(store, url, channels, itemID, saved, t) ==
    IF channels = <<>> THEN store
    ELSE MarkEach(MarkItemSeenStore(store, url, Head(channels), itemID, Head(saved), t),
                  url, Tail(channels), itemID, Tail(saved), t)

\* one iteration of the candidate loop (lines 146-199)
FeedFilter(k) ==
    /\ feed[k].pc = "filter"
    /\ LET fc == config.Feeds[k]
           f == feed[k]
           n == f.payload[f.idx]
           item == ItemPool[n]
           itemID == generateItemID(item)
       IN  IF item.Title = "" /\ item.Link = ""
           THEN /\ feed' = [feed EXCEPT ![k] = FilterAdvance(f)]
                /\ UNCHANGED <<states, files, everMarked, procMarked>>
           ELSE IF itemID \in f.seenInThisRun
           THEN /\ feed' = [feed EXCEPT ![k] = FilterAdvance(f)]
                /\ UNCHANGED <<states, files, everMarked, procMarked>>
           ELSE IF f.isFirstRun /\ ~fc.FirstPush
           THEN /\ feed' = [feed EXCEPT ![k] = FilterAdvance(f)]
                /\ \E saved \in [1..Len(fc.Channels) -> SaveOutcomes] :
                      LET r == MarkEach([states |-> states, files |-> files], fc.URL,
                                        fc.Channels, itemID, saved, now)
                      IN  states' = r.states /\ files' = r.files
                /\ everMarked' = everMarked \cup
                      {<<fc.URL, fc.Channels[c], itemID>> : c \in 1..Len(fc.Channels)}
                /\ procMarked' = procMarked \cup
                      {<<fc.URL, fc.Channels[c], itemID>> : c \in 1..Len(fc.Channels)}
           ELSE IF AllChannelsProcessed(fc, itemID)
           THEN /\ feed' = [feed EXCEPT ![k] = FilterAdvance(f)]
                /\ UNCHANGED <<states, files, everMarked, procMarked>>
           ELSE IF IsStale(fc, item)
           THEN /\ feed' = [feed EXCEPT ![k] = FilterAdvance(f)]
                /\ UNCHANGED <<states, files, everMarked, procMarked>>
           ELSE /\ feed' = [feed EXCEPT ![k] =
                               FilterAdvance([f EXCEPT !.newItems = Append(f.newItems, n),
                                                       !.seenInThisRun = f.seenInThisRun \cup {itemID}])]
                /\ UNCHANGED <<states, files, everMarked, procMarked>>
    /\ UNCHANGED <<now, startedAt, ioFaults, saving, startErr, envVars, running, tasks, errors,
                   marks, cycles, lastPos, sentOK, sentTwice, retryDue>>

\* the ordering pass (lines 201-222)
FeedSort(k) ==
    /\ feed[k].pc = "sort"
    /\ \E ordered \in OrderedLists(feed[k].newItems) :
          feed' = [feed EXCEPT ![k] =
                      IF ordered = <<>> THEN [@ EXCEPT !.pc = "wait"]
                      ELSE [@ EXCEPT !.pc = "dispatch", !.newItems = ordered,
                                     !.idx = 1, !.ci = 1]]
    /\ UNCHANGED <<storeVars, envVars, running, tasks, errors, histVars>>

\* a dispatch loop that sends whatever formatMessage returns
EmptyMessageNever(message) == FALSE

\* if message == "" (line 238)
EmptyMessage(message) == message = ""

\* after the body of the dispatch loop for one (item, channel)
DispatchAdvance(f, fc) ==
    IF f.ci < Len(fc.Channels) THEN [f EXCEPT !.ci = f.ci + 1]
    ELSE IF f.idx < Len(f.newItems) THEN [f EXCEPT !.idx = f.idx + 1, !.ci = 1]
    ELSE [f EXCEPT !.pc = "wait"]

\* one iteration of the dispatch loop (lines 229-285): skip a channel that
\* reports the id seen or an empty message, else start a delivery goroutine
FeedDispatch(k) ==
    /\ feed[k].pc = "dispatch"
    /\ LET fc == config.Feeds[k]
           f == feed[k]
           n == f.newItems[f.idx]
           channel == fc.Channels[f.ci]
       IN  /\ feed' = [feed EXCEPT ![k] = DispatchAdvance(f, fc)]
           /\ tasks' = IF \/ IsItemSeen(fc.URL, channel, ItemIDOf(n))
                          \/ EmptyMessage(formatMessage(ItemPool[n], fc.Template))
                       THEN tasks
                       ELSE [tasks EXCEPT ![k] = Append(@, NewTask(channel, n, f.idx))]
    /\ UNCHANGED <<storeVars, envVars, running, errors, histVars>>

\* processFeed returning without wg.Wait(): its delivery goroutines go on
FeedWaitNoBarrier(k) ==
    /\ feed[k].pc = "wait"
    /\ feed' = [feed EXCEPT ![k] =
                   EndFeed("processed", @.payload,
                        @.isFirstRun /\ ~config.Feeds[k].FirstPush)]
    /\ UNCHANGED <<storeVars, envVars, running, tasks, errors, histVars>>

\* wg.Wait() returns: processFeed returns nil and the feed's slot is released
FeedWait(k) ==
    /\ feed[k].pc = "wait"
    /\ \A t \in 1..Len(tasks[k]) : tasks[k][t].pc = "done"
    /\ feed' = [feed EXCEPT ![k] =
                   EndFeed("processed", @.payload,
                        @.isFirstRun /\ ~config.Feeds[k].FirstPush)]
    /\ tasks' = [tasks EXCEPT ![k] = <<>>]
    /\ lastPos' = [lastPos EXCEPT ![k] = [c \in Channels |-> 0]]
    /\ retryDue' = {d \in retryDue : d[1] # k \/ ~Fetched(k, d[3])} \cup Exhausted(k)
    /\ UNCHANGED <<storeVars, envVars, running, errors, everMarked, procMarked,
                   marks, cycles, sentOK, sentTwice>>

\* ProcessFeeds returns once every feed goroutine has finished
ProcessFeedsReturn ==
    /\ running
    /\ \A k \in Feeds : feed[k].pc = "done"
    /\ running' = FALSE
    /\ UNCHANGED <<storeVars, envVars, feed, tasks, errors, histVars>>

\* sem <- struct{}{}: the delivery goroutine gets a slot
TaskAcquire(k, t) ==
    /\ tasks[k][t].pc = "blocked"
    /\ Cardinality(Holding(k)) < channelSemCap
    /\ tasks' = [tasks EXCEPT ![k][t].pc = IF 0 < maxRetries THEN "send" ELSE "after"]
    /\ UNCHANGED <<storeVars, envVars, running, feed, errors, histVars>>

\* h.bot.Send(channel, message) returns, with or without an error
TaskSend(k, t, ok) ==
    /\ tasks[k][t].pc = "send"
    /\ LET task == tasks[k][t]
           triple == <<config.Feeds[k].URL, task.channel, ItemIDOf(task.item)>>
       IN  /\ tasks' = [tasks EXCEPT ![k][t] =
                           [task EXCEPT !.sends = task.sends + 1,
                                        !.sendSuccess = ok,
                                        !.pc = IF ok \/ LastAttempt(task.i)
                                               THEN "after" ELSE "backoff"]]
           /\ lastPos' = [lastPos EXCEPT ![k][task.channel] = task.pos]
           /\ sentOK' = IF ok THEN sentOK \cup {triple} ELSE sentOK
           /\ sentTwice' = IF ok /\ triple \in sentOK THEN sentTwice \cup {triple}
                           ELSE sentTwice
    /\ UNCHANGED <<storeVars, envVars, running, feed, errors,
                   everMarked, procMarked, marks, cycles, retryDue>>

\* ExponentialBackoffWithJitter(i) has slept; i++ and the loop test
TaskBackoff(k, t) ==
    /\ tasks[k][t].pc = "backoff"
    /\ tasks' = [tasks EXCEPT ![k][t] =
                    [@ EXCEPT !.sleeps = @ + 1,
                              !.i = @ + 1,
                              !.pc = IF tasks[k][t].i + 1 < maxRetries
                                     THEN "send" ELSE "after"]]
    /\ UNCHANGED <<storeVars, envVars, running, feed, errors, histVars>>

\* a delivery goroutine that treats an error of MarkItemSeen as fatal: it
\* reports the error and returns at once
TaskAfterFatal(k, t) ==
    /\ tasks[k][t].pc = "after"
    /\ LET task == tasks[k][t]
       IN  IF ShouldMark(task)
           THEN \E saved \in SaveOutcomes :
                   /\ MarkItemSeen(config.Feeds[k].URL, task.channel,
                                   ItemIDOf(task.item), saved)
                   /\ tasks' = [tasks EXCEPT ![k][t] =
                                   [task EXCEPT !.markCalls = task.markCalls + 1,
                                                !.pc = IF saved THEN "cooldown" ELSE "exit"]]
                   /\ errors' = IF saved THEN errors
                                ELSE Append(errors, FeedError(config.Feeds[k].Name))
           ELSE /\ tasks' = [tasks EXCEPT ![k][t].pc = "exit"]
                /\ UNCHANGED <<states, files, everMarked, procMarked, errors>>
    /\ UNCHANGED <<now, startedAt, ioFaults, saving, startErr, envVars, running, feed,
                   marks, cycles, lastPos, sentOK, sentTwice, retryDue>>

\* after the retry loop (lines 274-282): mark the item seen after a
\* successful send, else log, release the slot and end
TaskAfter(k, t) ==
    /\ tasks[k][t].pc = "after"
    /\ LET task == tasks[k][t]
       IN  IF ShouldMark(task)
           THEN /\ \E saved \in SaveOutcomes :
                      MarkItemSeen(config.Feeds[k].URL, task.channel,
                                   ItemIDOf(task.item), saved)
                /\ tasks' = [tasks EXCEPT ![k][t] =
                                [task EXCEPT !.markCalls = task.markCalls + 1,
                                             !.pc = "cooldown"]]
           ELSE /\ tasks' = [tasks EXCEPT ![k][t].pc = "exit"]
                /\ UNCHANGED <<states, files, everMarked, procMarked>>
    /\ UNCHANGED <<now, startedAt, ioFaults, saving, startErr, envVars, running, feed, errors,
                   marks, cycles, lastPos, sentOK, sentTwice, retryDue>>

\* time.Sleep(time.Second) is over
TaskCooldown(k, t) ==
    /\ tasks[k][t].pc = "cooldown"
    /\ tasks' = [tasks EXCEPT ![k][t].pc = "exit"]
    /\ UNCHANGED <<storeVars, envVars, running, feed, errors, histVars>>

\* the goroutine returns: its deferred calls release the slot and call
\* wg.Done, and its loop variables are gone; what it did stays on record
TaskExit(k, t) ==
    /\ tasks[k][t].pc = "exit"
    /\ tasks' = [tasks EXCEPT ![k][t] =
                    [NewTask(@.channel, @.item, @.pos) EXCEPT
                        !.pc = "done", !.sendSuccess = tasks[k][t].sendSuccess,
                        !.markCalls = tasks[k][t].markCalls]]
    /\ UNCHANGED <<storeVars, envVars, running, feed, errors, histVars>>

-----------------------------------------------------------------------------
(* Specifications *)

\* main's loop is not part of the specification: no signal, no tick, and the
\* handler keeps the configuration it was built with
MainIdle ==
    /\ ctxDone = FALSE
    /\ tickerC = 0
    /\ mainPc = "none"
    /\ hConfig = config

\* config.Manager.Load keeps a configuration only if Validate accepts it
ValidScenarios == {sc \in Scenarios : Validate(sc.config)}

StoreInit ==
    /\ states = NewStorage(EmptyMap, 0).states
    /\ files = EmptyMap
    /\ now = 0
    /\ startedAt = 0
    /\ ioFaults = TRUE
    /\ saving = NoSave
    /\ mutex = Unlocked
    /\ callers = NoCallers
    /\ startErr = FALSE
    /\ config = CfgTwoChannels
    /\ variant = "firstrun"
    /\ call = NoCall
    /\ MainIdle
    /\ source = [payloads |-> Payloads, mayFail |-> TRUE]
    /\ running = FALSE
    /\ feed = [k \in 1..Len(config.Feeds) |-> InitFeed]
    /\ tasks = [k \in 1..Len(config.Feeds) |-> <<>>]
    /\ errors = <<>>
    /\ everMarked = {}
    /\ procMarked = {}
    /\ marks = 0
    /\ cycles = 0
    /\ lastPos = [k \in 1..Len(config.Feeds) |-> [c \in Channels |-> 0]]
    /\ sentOK = {}
    /\ sentTwice = {}
    /\ retryDue = {}

StoreNext == StoreMark \/ Tick \/ Restart

\* the store alone: MarkItemSeen calls, time, and process restarts
StoreSpec == StoreInit /\ [][StoreNext]_vars

\* the store alone on a data directory whose writes may fail or never fail
SnapInit ==
    /\ states = NewStorage(EmptyMap, 0).states
    /\ files = EmptyMap
    /\ now = 0
    /\ startedAt = 0
    /\ ioFaults \in BOOLEAN
    /\ saving = NoSave
    /\ mutex = Unlocked
    /\ callers = NoCallers
    /\ startErr = FALSE
    /\ config = CfgTwoChannels
    /\ variant = "firstrun"
    /\ call = NoCall
    /\ MainIdle
    /\ source = [payloads |-> Payloads, mayFail |-> TRUE]
    /\ running = FALSE
    /\ feed = [k \in 1..Len(config.Feeds) |-> InitFeed]
    /\ tasks = [k \in 1..Len(config.Feeds) |-> <<>>]
    /\ errors = <<>>
    /\ everMarked = {}
    /\ procMarked = {}
    /\ marks = 0
    /\ cycles = 0
    /\ lastPos = [k \in 1..Len(config.Feeds) |-> [c \in Channels |-> 0]]
    /\ sentOK = {}
    /\ sentTwice = {}
    /\ retryDue = {}

SnapNext == StoreMark \/ Tick \/ Restart

SnapSpec == SnapInit /\ [][SnapNext]_vars

Init ==
    /\ states = NewStorage(EmptyMap, 0).states
    /\ files = EmptyMap
    /\ now = 0
    /\ startedAt = 0
    /\ ioFaults = FALSE
    /\ saving = NoSave
    /\ mutex = Unlocked
    /\ callers = NoCallers
    /\ startErr = FALSE
    /\ \E sc \in ValidScenarios :
          /\ config = sc.config
          /\ source = [payloads |-> sc.payloads, mayFail |-> TRUE]
    /\ variant \in Variants
    /\ call = NoCall
    /\ MainIdle
    /\ running = FALSE
    /\ feed = [k \in 1..Len(config.Feeds) |-> InitFeed]
    /\ tasks = [k \in 1..Len(config.Feeds) |-> <<>>]
    /\ errors = <<>>
    /\ everMarked = {}
    /\ procMarked = {}
    /\ marks = 0
    /\ cycles = 0
    /\ lastPos = [k \in 1..Len(config.Feeds) |-> [c \in Channels |-> 0]]
    /\ sentOK = {}
    /\ sentTwice = {}
    /\ retryDue = {}

Next ==
    \/ ProcessFeedsStart(TRUE)
    \/ ProcessFeedsReturn
    \/ Tick
    \/ \E k \in Feeds :
          \/ FeedAcquire(k)
          \/ FeedFetchError(k)
          \/ FeedFetch(k)
          \/ FeedFilter(k)
          \/ FeedSort(k)
          \/ FeedDispatch(k)
          \/ FeedWait(k)
          \/ \E t \in 1..Len(tasks[k]) :
                \/ TaskAcquire(k, t)
                \/ \E ok \in BOOLEAN : TaskSend(k, t, ok)
                \/ TaskBackoff(k, t)
                \/ TaskAfter(k, t)
                \/ TaskCooldown(k, t)
                \/ TaskExit(k, t)

\* the polling cycles of one process
Spec == Init /\ [][Next]_vars

\* the feed servers of the liveness runs: every fetch succeeds and returns
\* the same payload, so that an item stays in the fetched feed
LiveScenarios ==
    { Scenario(CfgOneChannel, {<<1, 2, 3>>}),
      Scenario(CfgTwoChannels, {<<1>>}),
      Scenario(CfgNoFirstPush, {<<1>>}),
      Scenario(CfgExpiring, {<<3, 4>>}) }

\* the feeds of LiveScenarios and the delivery goroutines one cycle of such
\* a feed can start
LiveFeeds == {1}
LiveTasks == {1, 2, 3}

LiveInit ==
    /\ states = NewStorage(EmptyMap, 0).states
    /\ files = EmptyMap
    /\ now = 0
    /\ startedAt = 0
    /\ ioFaults = FALSE
    /\ saving = NoSave
    /\ mutex = Unlocked
    /\ callers = NoCallers
    /\ startErr = FALSE
    /\ \E sc \in LiveScenarios :
          /\ Validate(sc.config)
          /\ config = sc.config
          /\ source = [payloads |-> sc.payloads, mayFail |-> FALSE]
    /\ variant \in Variants
    /\ call = NoCall
    /\ MainIdle
    /\ running = FALSE
    /\ feed = [k \in 1..Len(config.Feeds) |-> InitFeed]
    /\ tasks = [k \in 1..Len(config.Feeds) |-> <<>>]
    /\ errors = <<>>
    /\ everMarked = {}
    /\ procMarked = {}
    /\ marks = 0
    /\ cycles = 0
    /\ lastPos = [k \in 1..Len(config.Feeds) |-> [c \in Channels |-> 0]]
    /\ sentOK = {}
    /\ sentTwice = {}
    /\ retryDue = {}

\* the steps of the goroutine of feed k
FeedStep(k) ==
    /\ k \in DOMAIN feed
    /\ \/ FeedAcquire(k)
       \/ FeedFetch(k)
       \/ FeedFilter(k)
       \/ FeedSort(k)
       \/ FeedDispatch(k)
       \/ FeedWait(k)

\* the t-th delivery goroutine of feed k waits for its slot
TaskWait(k, t) ==
    /\ k \in DOMAIN tasks
    /\ t <= Len(tasks[k])
    /\ TaskAcquire(k, t)

\* the steps of the t-th delivery goroutine of feed k once it has its slot
TaskStep(k, t) ==
    /\ k \in DOMAIN tasks
    /\ t <= Len(tasks[k])
    /\ \/ \E ok \in BOOLEAN : TaskSend(k, t, ok)
       \/ TaskBackoff(k, t)
       \/ TaskAfter(k, t)
       \/ TaskCooldown(k, t)
       \/ TaskExit(k, t)

\* a Send of feed k to the channel returns without error
SendSucceeds(k, channel) ==
    /\ k \in DOMAIN tasks
    /\ \E t \in 1..Len(tasks[k]) :
          tasks[k][t].channel = channel /\ TaskSend(k, t, TRUE)

LiveNext ==
    \/ ProcessFeedsStart(FALSE)
    \/ ProcessFeedsReturn
    \/ \E k \in Feeds :
          \/ FeedStep(k)
          \/ \E t \in 1..Len(tasks[k]) : TaskWait(k, t) \/ TaskStep(k, t)

\* The ticker calls ProcessFeeds again and again; the Go scheduler runs every
\* goroutine that can run; a goroutine blocked on the semaphore channel is
\* queued and gets the slot in its turn; and a channel to which Sends keep
\* being attempted sees one of them succeed.
LiveFairness ==
    /\ WF_vars(ProcessFeedsStart(FALSE))
    /\ WF_vars(ProcessFeedsReturn)
    /\ \A k \in LiveFeeds :
          /\ WF_vars(FeedStep(k))
          /\ \A t \in LiveTasks : SF_vars(TaskWait(k, t)) /\ WF_vars(TaskStep(k, t))
          /\ \A channel \in Channels : SF_vars(SendSucceeds(k, channel))

\* polling without end against feeds that keep their items
LiveSpec == LiveInit /\ [][LiveNext]_vars /\ LiveFairness

\* three independent feeds whose server returns nothing, or one item (which
\* renders empty under the template of the third feed), or fails
CapScenario == Scenario(CfgThreeFeeds, {<<>>, <<2>>})

CapFeeds == {1, 2, 3}

CapInit ==
    /\ states = NewStorage(EmptyMap, 0).states
    /\ files = EmptyMap
    /\ now = 0
    /\ startedAt = 0
    /\ ioFaults = TRUE
    /\ saving = NoSave
    /\ mutex = Unlocked
    /\ callers = NoCallers
    /\ startErr = FALSE
    /\ Validate(CapScenario.config)
    /\ config = CapScenario.config
    /\ source = [payloads |-> CapScenario.payloads, mayFail |-> TRUE]
    /\ variant = "firstrun"
    /\ call = NoCall
    /\ MainIdle
    /\ running = FALSE
    /\ feed = [k \in 1..Len(config.Feeds) |-> InitFeed]
    /\ tasks = [k \in 1..Len(config.Feeds) |-> <<>>]
    /\ errors = <<>>
    /\ everMarked = {}
    /\ procMarked = {}
    /\ marks = 0
    /\ cycles = 0
    /\ lastPos = [k \in 1..Len(config.Feeds) |-> [c \in Channels |-> 0]]
    /\ sentOK = {}
    /\ sentTwice = {}
    /\ retryDue = {}

\* the goroutine of feed k waits for a slot of ProcessFeeds' semaphore
FeedEnter(k) ==
    /\ k \in DOMAIN feed
    /\ FeedAcquire(k)

\* the steps of the goroutine of feed k once it has its slot
FeedRun(k) ==
    /\ k \in DOMAIN feed
    /\ \/ FeedFetchError(k)
       \/ FeedFetch(k)
       \/ FeedFilter(k)
       \/ FeedSort(k)
       \/ FeedDispatch(k)
       \/ FeedWait(k)

\* ProcessFeeds is called once
ProcessFeedsOnce ==
    /\ cycles = 0
    /\ ProcessFeedsStart(TRUE)

CapNext ==
    \/ ProcessFeedsOnce
    \/ ProcessFeedsReturn
    \/ \E k \in Feeds :
          \/ FeedEnter(k)
          \/ FeedRun(k)
          \/ \E t \in 1..Len(tasks[k]) : TaskWait(k, t) \/ TaskStep(k, t)

\* ProcessFeeds is called; the Go scheduler runs every goroutine that can
\* run; a goroutine blocked on a semaphore channel is queued and gets the
\* slot in its turn.
CapFairness ==
    /\ WF_vars(ProcessFeedsOnce)
    /\ WF_vars(ProcessFeedsReturn)
    /\ \A k \in CapFeeds :
          /\ SF_vars(FeedEnter(k))
          /\ WF_vars(FeedRun(k))
          /\ SF_vars(TaskWait(k, 1))
          /\ WF_vars(TaskStep(k, 1))

\* one polling cycle over three feeds
CapSpec == CapInit /\ [][CapNext]_vars /\ CapFairness

\* saveChannelState, step by step, in a process that may be killed between
\* any two steps.  The clock stands still: how a snapshot ages is the
\* matter of the store specification.

\* the MarkItemSeen calls the crash specification explores
CrashArgs == { <<"u", "1">> } \X Channels \X {"g1", "g2"}

\* tempFile := filepath + ".tmp", written in place of the bucket file itself
TempFilePathInPlace(feedURL, channel) == GetBloomFilePath(feedURL, channel)

\* tempFile := filepath + ".tmp"
TempFilePath(feedURL, channel) == GetBloomFilePath(feedURL, channel) \o <<".tmp">>

\* the file os.OpenFile(.., O_WRONLY|O_CREATE|O_TRUNC) leaves: no bytes
EmptyFile == [ts |-> 0, filter |-> BloomNew, ids |-> {}, data |-> "short"]

MapRemove(m, k) == [x \in DOMAIN m \ {k} |-> m[x]]

\* the temp file of the save in flight
SavingTemp == TempFilePath(saving.feedURL, saving.channel)

\* the ChannelState the save in flight writes (MarkItemSeen holds the lock,
\* so it does not change during the save)
SavingState == states[saving.feedURL][saving.channel]

\* MarkItemSeen adds the id in memory (lines 126-143) and calls
\* saveChannelState, which opens its temp file (238-243); if the open
\* fails, the call returns the error
SaveOpen ==
    /\ saving.pc = "none"
    /\ ~startErr
    /\ marks < MaxMarks
    /\ \E args \in CrashArgs, opened \in SaveOutcomes :
          /\ states' = MarkItemSeenMem(states, args[1], args[2], args[3], now)
          /\ files' = IF opened
                      THEN MapPut(files, TempFilePath(args[1], args[2]), EmptyFile)
                      ELSE files
          /\ saving' = IF opened
                       THEN [pc |-> "opened", feedURL |-> args[1], channel |-> args[2]]
                       ELSE NoSave
          /\ everMarked' = everMarked \cup {args}
          /\ procMarked' = procMarked \cup {args}
    /\ marks' = marks + 1
    /\ UNCHANGED <<now, startedAt, ioFaults, startErr, envVars, pipeVars,
                   cycles, lastPos, sentOK, sentTwice, retryDue>>

\* file.Write(timeBytes) (245-250)
SaveWriteTimestamp ==
    /\ saving.pc = "opened"
    /\ files' = [files EXCEPT ![SavingTemp] = [@ EXCEPT !.ts = now, !.data = "ts"]]
    /\ saving' = [saving EXCEPT !.pc = "ts"]
    /\ UNCHANGED <<states, now, startedAt, ioFaults, startErr, envVars, pipeVars, histVars>>

\* file.Write(filterData) (252-259) has written a part of the filter bytes
SaveWriteFilterPart ==
    /\ saving.pc = "ts"
    /\ files' = [files EXCEPT ![SavingTemp] = [@ EXCEPT !.data = "partial"]]
    /\ saving' = [saving EXCEPT !.pc = "writing"]
    /\ UNCHANGED <<states, now, startedAt, ioFaults, startErr, envVars, pipeVars, histVars>>

\* file.Write(filterData) has written all of the filter bytes
SaveWriteFilter ==
    /\ saving.pc \in {"ts", "writing"}
    /\ files' = [files EXCEPT ![SavingTemp] =
                     [@ EXCEPT !.filter = SavingState.filter, !.ids = SavingState.ids,
                               !.data = "full"]]
    /\ saving' = [saving EXCEPT !.pc = "written"]
    /\ UNCHANGED <<states, now, startedAt, ioFaults, startErr, envVars, pipeVars, histVars>>

\* file.Sync() (261-264)
SaveSync ==
    /\ saving.pc = "written"
    /\ saving' = [saving EXCEPT !.pc = "synced"]
    /\ UNCHANGED <<states, files, now, startedAt, ioFaults, startErr, envVars,
                   pipeVars, histVars>>

\* file.Close() (266-269)
SaveClose ==
    /\ saving.pc = "synced"
    /\ saving' = [saving EXCEPT !.pc = "closed"]
    /\ UNCHANGED <<states, files, now, startedAt, ioFaults, startErr, envVars,
                   pipeVars, histVars>>

\* os.Rename(tempFile, filepath) (271-275): the temp file takes the bucket
\* file's name in one step, and MarkItemSeen returns nil
SaveRename ==
    /\ saving.pc = "closed"
    /\ files' = MapRemove(MapPut(files, GetBloomFilePath(saving.feedURL, saving.channel),
                                 files[SavingTemp]),
                          SavingTemp)
    /\ saving' = NoSave
    /\ UNCHANGED <<states, now, startedAt, ioFaults, startErr, envVars, pipeVars, histVars>>

\* a write, the sync, the close or the rename returns an error:
\* saveChannelState returns it and leaves the temp file as it is
SaveFail ==
    /\ saving.pc # "none"
    /\ ioFaults
    /\ saving' = NoSave
    /\ UNCHANGED <<states, files, now, startedAt, ioFaults, startErr, envVars,
                   pipeVars, histVars>>

\* the process is killed, at any step of a save or between saves, and a new
\* process calls NewStorage on the data directory
Kill ==
    /\ LET r == NewStorage(files, now)
       IN  /\ states' = r.states
           /\ startErr' = r.err
    /\ saving' = NoSave
    /\ startedAt' = now
    /\ procMarked' = {}
    /\ UNCHANGED <<files, now, ioFaults, envVars, pipeVars, everMarked, marks,
                   cycles, lastPos, sentOK, sentTwice, retryDue>>

CrashInit == StoreInit

CrashNext ==
    \/ SaveOpen
    \/ SaveWriteTimestamp
    \/ SaveWriteFilterPart
    \/ SaveWriteFilter
    \/ SaveSync
    \/ SaveClose
    \/ SaveRename
    \/ SaveFail
    \/ Kill

CrashSpec == CrashInit /\ [][CrashNext]_vars

\* NewStorage on a data directory as earlier processes, crashes or the disk
\* may have left it: bucket files of the two channels of one feed, written
\* at day 0 or day 30, whole or cut short, and files whose names are not
\* the encoding of a channel|feedURL pair.

\* a name that is not base64 text
UndecodableName == <<"!!">> \o bloomFileSuffix

\* the encoding of "ab": base64 text without a "|" in what it decodes to
NoBarName == EncodeToString(<<"a", "b">>) \o bloomFileSuffix

LoadBuckets == { <<"u", "1">> } \X Channels

LoadNames ==
    {GetBloomFilePath(b[1], b[2]) : b \in LoadBuckets} \cup {UndecodableName, NoBarName}

\* the positions a filter holds after filter.Add of each of the ids
BitsOf(ids) == UNION {BloomLocations(id) : id \in ids}

LoadContents ==
    {[ts |-> t, filter |-> BitsOf(ids), ids |-> ids, data |-> "full"] :
        t \in {0, 1}, ids \in {{"g1"}, {"g1", "g2"}}}
    \cup {[ts |-> t, filter |-> BloomNew, ids |-> {}, data |-> d] :
             t \in {0, 1}, d \in {"ts", "partial"}}
    \cup {EmptyFile}

\* the files with a malformed name are whole files, so that the name alone
\* decides what NewStorage does with them
DataDirs ==
    {fs \in UNION {[N -> LoadContents] : N \in SUBSET LoadNames} :
        \A n \in DOMAIN fs \cap {UndecodableName, NoBarName} :
            fs[n] = [ts |-> 0, filter |-> BitsOf({"g1"}), ids |-> {"g1"}, data |-> "full"]}

\* the state after NewStorage(dataDir) has returned
LoadInit ==
    /\ now \in 0..MaxNow
    /\ files \in DataDirs
    /\ \A n \in DOMAIN files : files[n].ts <= now
    /\ states = NewStorage(files, now).states
    /\ startErr = NewStorage(files, now).err
    /\ startedAt = now
    /\ ioFaults = FALSE
    /\ saving = NoSave
    /\ mutex = Unlocked
    /\ callers = NoCallers
    /\ config = CfgTwoChannels
    /\ variant = "firstrun"
    /\ call = NoCall
    /\ MainIdle
    /\ source = [payloads |-> Payloads, mayFail |-> TRUE]
    /\ running = FALSE
    /\ feed = [k \in 1..Len(config.Feeds) |-> InitFeed]
    /\ tasks = [k \in 1..Len(config.Feeds) |-> <<>>]
    /\ errors = <<>>
    /\ everMarked = {}
    /\ procMarked = {}
    /\ marks = 0
    /\ cycles = 0
    /\ lastPos = [k \in 1..Len(config.Feeds) |-> [c \in Channels |-> 0]]
    /\ sentOK = {}
    /\ sentTwice = {}
    /\ retryDue = {}

LoadNext == Tick \/ Kill

LoadSpec == LoadInit /\ [][LoadNext]_vars

\* The pure functions of the program, each called on an input drawn from
\* a bounded set, and called again on the same input.

\* items with every combination of empty and non-empty identity fields
IdItems ==
    {[GUID |-> g, Link |-> l, Title |-> t, Published |-> p, PublishedParsed |-> {},
      Description |-> "", Content |-> c] :
        g \in {"", "g"}, l \in {"", "l"}, t \in {"", "t"}, p \in {"", "p"},
        c \in {"", "c", "d"}}

\* arguments and results are records; ret is NoCall until the call returns
NewCall(op, arg) == [op |-> op, arg |-> arg, ret |-> NoCall, n |-> 0]

\* template.go on strings that are sequences of characters.  The regular
\* expressions of the model are literal patterns: non-empty text without
\* groups or operators, in which "\\" followed by a character stands for
\* that character.

\* strings.HasPrefix
HasPrefix(str, prefix) ==
    /\ Len(str) >= Len(prefix)
    /\ SubSeq(str, 1, Len(prefix)) = prefix

\* strings.ReplaceAll(str, old, new), old non-empty
RECURSIVE ReplaceAll(_, _, _)
ReplaceAll(str, old, new) ==
    IF str = <<>> THEN <<>>
    ELSE IF HasPrefix(str, old)
    THEN new \o ReplaceAll(SubSeq(str, Len(old) + 1, Len(str)), old, new)
    ELSE <<Head(str)>> \o ReplaceAll(Tail(str), old, new)

\* strings.Split(str, sep) for a separator of one character, without the
\* handling of escapes
RECURSIVE Split(_, _)
Split(str, sep) ==
    LET at == {i \in 1..Len(str) : str[i] = sep}
    IN  IF at = {} THEN <<str>>
        ELSE LET k == CHOOSE i \in at : \A j \in at : i <= j
             IN  <<SubSeq(str, 1, k - 1)>> \o Split(SubSeq(str, k + 1, Len(str)), sep)

\* strings.SplitN(str, sep, 2)
SplitN(str, sep) ==
    LET at == {i \in 1..Len(str) : str[i] = sep}
    IN  IF at = {} THEN <<str>>
        ELSE LET k == CHOOSE i \in at : \A j \in at : i <= j
             IN  <<SubSeq(str, 1, k - 1), SubSeq(str, k + 1, Len(str))>>

\* strings.TrimSpace
RECURSIVE TrimSpace(_)
TrimSpace(str) ==
    IF str = <<>> THEN str
    ELSE IF Head(str) = " " THEN TrimSpace(Tail(str))
    ELSE IF str[Len(str)] = " " THEN TrimSpace(SubSeq(str, 1, Len(str) - 1))
    ELSE str

\* fmt.Sprintf("<===%%%X%%===>", sep): a marker, one symbol of the model,
\* that no input of the model holds
interSymbol(sep) == << "<===%" \o (IF sep = "|" THEN "7C" ELSE "3A") \o "%===>" >>

\* a split that takes an escaped separator for a separator
splitPlain(str, sep) == Split(str, sep)

\* splitEscaped (lines 126-137)
splitEscaped(str, sep) ==
    LET marked == ReplaceAll(str, <<"\\", sep>>, interSymbol(sep))
        result == Split(marked, sep)
    IN  [i \in 1..Len(result) |-> ReplaceAll(result[i], interSymbol(sep), <<"\\", sep>>)]

\* the text a literal pattern matches
RECURSIVE Literal(_)
Literal(pattern) ==
    IF pattern = <<>> THEN <<>>
    ELSE IF Head(pattern) = "\\" /\ Len(pattern) >= 2
    THEN <<pattern[2]>> \o Literal(SubSeq(pattern, 3, Len(pattern)))
    ELSE <<Head(pattern)>> \o Literal(Tail(pattern))

Contains(str, sub) == \E i \in 0..Len(str) : HasPrefix(SubSeq(str, i + 1, Len(str)), sub)

\* ExtractOperation.Process (lines 49-66) for a literal pattern: the match,
\* or "" if there is none
ExtractProcess(content, params) ==
    IF Contains(content, Literal(params)) THEN Literal(params) ELSE <<>>

\* ReplaceOperation.Process (lines 71-86) for a literal pattern and a
\* replacement without "$"
ReplaceProcess(content, params) ==
    LET parts == SplitN(params, ":")
    IN  IF Len(parts) # 2 THEN content
        ELSE ReplaceAll(content, Literal(parts[1]), parts[2])

\* DefaultOperation.Process (lines 94-99)
DefaultProcess(content, defaultValue) ==
    IF content = <<>> THEN defaultValue ELSE content

opExtract == <<"e", "x", "t", "r", "a", "c", "t">>
opReplace == <<"r", "e", "p", "l", "a", "c", "e">>
opDefault == <<"d", "e", "f", "a", "u", "l", "t">>

\* the registry of NewTemplateProcessor (lines 28-38)
Registered(opName) == opName \in {opExtract, opReplace, opDefault}

Process(opName, content, params) ==
    IF opName = opExtract THEN ExtractProcess(content, params)
    ELSE IF opName = opReplace THEN ReplaceProcess(content, params)
    ELSE DefaultProcess(content, params)

\* the loop of ProcessField (lines 110-121) over the operations left
RECURSIVE ApplyOperations(_, _)
ApplyOperations(operations, result) ==
    IF operations = <<>> THEN result
    ELSE LET parts == SplitN(Head(operations), ":")
         IN  IF Len(parts) < 2 THEN ApplyOperations(Tail(operations), result)
             ELSE IF Registered(TrimSpace(parts[1]))
             THEN ApplyOperations(Tail(operations),
                                  Process(TrimSpace(parts[1]), result, parts[2]))
             ELSE ApplyOperations(Tail(operations), result)

\* ProcessField (lines 102-124)
ProcessField(field, content) ==
    LET operations == splitEscaped(field, "|")
    IN  IF Len(operations) = 1 THEN content
        ELSE ApplyOperations(Tail(operations), content)

\* The fields the model processes are written from their parts: a field
\* name and up to two operations, each a name, with or without ":" and a
\* parameter.
Operation(name, colon, params) == [name |-> name, colon |-> colon, params |-> params]

FieldOperations ==
    { Operation(opDefault, TRUE, <<"z">>),
      Operation(<<" ">> \o opDefault \o <<" ">>, TRUE, <<"y">>),
      Operation(opExtract, TRUE, <<"a">>),
      Operation(opExtract, TRUE, <<"a", "\\", "|", "b">>),
      Operation(opReplace, TRUE, <<"a", ":", "c">>),
      Operation(opDefault, FALSE, <<>>),
      Operation(<<"u", "p">>, TRUE, <<"z">>) }

FieldContents == { <<>>, <<"a">>, <<"a", "|", "b">>, <<"x", "a", "a">> }

OperationChains ==
    {<<>>} \cup {<<o>> : o \in FieldOperations}
           \cup {<<o1, o2>> : o1 \in FieldOperations, o2 \in FieldOperations}

\* the text of an operation and of a field
OperationText(o) == o.name \o (IF o.colon THEN <<":">> \o o.params ELSE <<>>)

RECURSIVE FieldText(_, _)
FieldText(name, chain) ==
    IF chain = <<>> THEN name
    ELSE FieldText(name \o <<"|">> \o OperationText(Head(chain)), Tail(chain))

\* strings of up to two characters, the "|" among them
ShortStrings(alphabet) ==
    {<<>>} \cup {<<x>> : x \in alphabet} \cup {<<x, y>> : x \in alphabet, y \in alphabet}

\* the (channel, feedURL) pairs whose bucket file name is computed
NamePairs ==
    {[channel |-> c, feedURL |-> u] :
        c \in ShortStrings({"a", "|"}), u \in ShortStrings({"u", "|"})}

\* NewStorage's decoding of a bucket file name (lines 63-77): whether the
\* file is loaded, and under which channel and feedURL
DecodeFileName(filename) ==
    LET decoded == DecodeString(TrimSuffix(filename, bloomFileSuffix))
        parts == SplitN2(decoded.val)
    IN  IF decoded.err \/ Len(parts) # 2
        THEN [loaded |-> FALSE, channel |-> <<>>, feedURL |-> <<>>]
        ELSE [loaded |-> TRUE, channel |-> parts[1], feedURL |-> parts[2]]

Calls ==
    {NewCall("generateItemID", item) : item \in IdItems}
    \cup {NewCall("GetBloomFilePath", pair) : pair \in NamePairs}
    \cup {NewCall("ProcessField", [chain |-> chain, content |-> content]) :
             chain \in OperationChains, content \in FieldContents}

\* a call returns: the result of the latest call and the number of calls
Return(value) == [call EXCEPT !.ret = value, !.n = call.n + 1]

CallGenerateItemID ==
    /\ call.op = "generateItemID"
    /\ call.n < 2
    /\ call' = Return([id |-> generateItemID(call.arg)])
    /\ UNCHANGED <<storeVars, mainVars, config, variant, source, mutex, callers, pipeVars, histVars>>

\* GetBloomFilePath(feedURL, channel), and what a later startup makes of
\* the name
CallGetBloomFilePath ==
    /\ call.op = "GetBloomFilePath"
    /\ call.n < 2
    /\ LET name == GetBloomFilePath(call.arg.feedURL, call.arg.channel)
       IN  call' = Return([name |-> name, decoded |-> DecodeFileName(name)])
    /\ UNCHANGED <<storeVars, mainVars, config, variant, source, mutex, callers, pipeVars, histVars>>

\* ProcessField on the field "description" followed by the operations
CallProcessField ==
    /\ call.op = "ProcessField"
    /\ call.n < 2
    /\ call' = Return([text |-> ProcessField(FieldText(<<"d">>, call.arg.chain),
                                             call.arg.content)])
    /\ UNCHANGED <<storeVars, mainVars, config, variant, source, mutex, callers, pipeVars, histVars>>

CallInit ==
    /\ states = NewStorage(EmptyMap, 0).states
    /\ files = EmptyMap
    /\ now = 0
    /\ startedAt = 0
    /\ ioFaults = FALSE
    /\ saving = NoSave
    /\ mutex = Unlocked
    /\ callers = NoCallers
    /\ startErr = FALSE
    /\ call \in Calls
    /\ config = CfgTwoChannels
    /\ MainIdle
    /\ variant = "firstrun"
    /\ source = [payloads |-> Payloads, mayFail |-> TRUE]
    /\ running = FALSE
    /\ feed = [k \in 1..Len(config.Feeds) |-> InitFeed]
    /\ tasks = [k \in 1..Len(config.Feeds) |-> <<>>]
    /\ errors = <<>>
    /\ everMarked = {}
    /\ procMarked = {}
    /\ marks = 0
    /\ cycles = 0
    /\ lastPos = [k \in 1..Len(config.Feeds) |-> [c \in Channels |-> 0]]
    /\ sentOK = {}
    /\ sentTwice = {}
    /\ retryDue = {}

CallNext ==
    \/ CallGenerateItemID
    \/ CallGetBloomFilePath
    \/ CallProcessField

CallSpec == CallInit /\ [][CallNext]_vars

\* The store's methods called by concurrent goroutines (the delivery
\* goroutines and the processFeed goroutines of the feeds), with the steps
\* of each call and the RWMutex explicit.

Caller(t) == callers[t]

\* the goroutines that mark (delivery goroutines) and the one that reads
\* (a processFeed goroutine)
Markers == {1, 2}
Readers == {3}

\* the MarkItemSeen calls the lock specification explores
LockArgs ==
    { << <<"u", "1">>, <<"@", "a">>, "g1" >>, << <<"u", "1">>, <<"@", "a">>, "g2" >>,
      << <<"u", "1">>, <<"@", "b">>, "g1" >> }

\* a goroutine calls MarkItemSeen(feedURL, _, channel, itemID)
CallMark(t) ==
    /\ t \in Markers
    /\ Caller(t).pc = "idle"
    /\ marks < MaxMarks
    /\ \E args \in LockArgs :
          callers' = [callers EXCEPT ![t] =
                         [op |-> "MarkItemSeen", pc |-> "lock", feedURL |-> args[1],
                          channel |-> args[2], itemID |-> args[3]]]
    /\ marks' = marks + 1
    /\ UNCHANGED <<storeVars, mainVars, config, variant, source, call, mutex, pipeVars,
                   everMarked, procMarked, cycles, lastPos, sentOK, sentTwice, retryDue>>

\* s.RLock() in place of s.Lock(): the call goes on in shared mode
MarkLockShared(t) ==
    /\ Caller(t).pc = "lock"
    /\ mutex.writer = 0
    /\ mutex' = [mutex EXCEPT !.readers = @ \cup {t}]
    /\ callers' = [callers EXCEPT ![t].pc = "mem"]
    /\ UNCHANGED <<storeVars, mainVars, config, variant, source, call, pipeVars, histVars>>

\* s.Lock() (line 123) returns: nobody else holds the mutex in any mode
MarkLock(t) ==
    /\ Caller(t).pc = "lock"
    /\ mutex.writer = 0
    /\ mutex.readers = {}
    /\ mutex' = [mutex EXCEPT !.writer = t]
    /\ callers' = [callers EXCEPT ![t].pc = "mem"]
    /\ UNCHANGED <<storeVars, mainVars, config, variant, source, call, pipeVars, histVars>>

\* the in-memory part of MarkItemSeen (lines 126-143)
MarkMem(t) ==
    /\ Caller(t).pc = "mem"
    /\ states' = MarkItemSeenMem(states, Caller(t).feedURL, Caller(t).channel,
                                 Caller(t).itemID, now)
    /\ everMarked' = everMarked \cup {<<Caller(t).feedURL, Caller(t).channel, Caller(t).itemID>>}
    /\ procMarked' = procMarked \cup {<<Caller(t).feedURL, Caller(t).channel, Caller(t).itemID>>}
    /\ callers' = [callers EXCEPT ![t].pc = "open"]
    /\ UNCHANGED <<files, now, startedAt, ioFaults, saving, startErr, mainVars, config, variant,
                   source, call, mutex, pipeVars, marks, cycles, lastPos, sentOK,
                   sentTwice, retryDue>>

\* saveChannelState opens its temp file (238-243)
MarkOpen(t) ==
    /\ Caller(t).pc = "open"
    /\ files' = MapPut(files, TempFilePath(Caller(t).feedURL, Caller(t).channel), EmptyFile)
    /\ callers' = [callers EXCEPT ![t].pc = "write"]
    /\ UNCHANGED <<states, now, startedAt, ioFaults, saving, startErr, mainVars, config, variant,
                   source, call, mutex, pipeVars, histVars>>

\* saveChannelState writes the timestamp and the filter, syncs and closes
\* (245-269)
MarkWrite(t) ==
    /\ Caller(t).pc = "write"
    /\ files' = MapPut(files, TempFilePath(Caller(t).feedURL, Caller(t).channel),
                       [ts |-> now,
                        filter |-> states[Caller(t).feedURL][Caller(t).channel].filter,
                        ids |-> states[Caller(t).feedURL][Caller(t).channel].ids,
                        data |-> "full"])
    /\ callers' = [callers EXCEPT ![t].pc = "rename"]
    /\ UNCHANGED <<states, now, startedAt, ioFaults, saving, startErr, mainVars, config, variant,
                   source, call, mutex, pipeVars, histVars>>

\* os.Rename(tempFile, filepath) (271-275)
MarkRename(t) ==
    /\ Caller(t).pc = "rename"
    /\ LET temp == TempFilePath(Caller(t).feedURL, Caller(t).channel)
       IN  files' = IF temp \in DOMAIN files
                    THEN MapRemove(MapPut(files,
                                          GetBloomFilePath(Caller(t).feedURL, Caller(t).channel),
                                          files[temp]),
                                   temp)
                    ELSE files
    /\ callers' = [callers EXCEPT ![t].pc = "unlock"]
    /\ UNCHANGED <<states, now, startedAt, ioFaults, saving, startErr, mainVars, config, variant,
                   source, call, mutex, pipeVars, histVars>>

\* a step of saveChannelState returns an error, and MarkItemSeen returns it
MarkSaveFails(t) ==
    /\ Caller(t).pc \in {"open", "write", "rename"}
    /\ ioFaults
    /\ callers' = [callers EXCEPT ![t].pc = "unlock"]
    /\ UNCHANGED <<storeVars, mainVars, config, variant, source, call, mutex, pipeVars, histVars>>

\* the deferred s.Unlock() (line 124), as MarkItemSeen returns
MarkUnlock(t) ==
    /\ Caller(t).pc = "unlock"
    /\ mutex' = [writer |-> IF mutex.writer = t THEN 0 ELSE mutex.writer,
                 readers |-> mutex.readers \ {t}]
    /\ callers' = [callers EXCEPT ![t] = IdleCaller]
    /\ UNCHANGED <<storeVars, mainVars, config, variant, source, call, pipeVars, histVars>>

\* a goroutine calls IsItemSeen or GetLastUpdated
CallRead(t) ==
    /\ t \in Readers
    /\ Caller(t).pc = "idle"
    /\ \E op \in {"IsItemSeen", "GetLastUpdated"},
          args \in {a \in LockArgs : a[3] = "g1"} :
          callers' = [callers EXCEPT ![t] =
                         [op |-> op, pc |-> "rlock", feedURL |-> args[1],
                          channel |-> args[2], itemID |-> args[3]]]
    /\ UNCHANGED <<storeVars, mainVars, config, variant, source, call, mutex, pipeVars, histVars>>

\* s.RLock() (lines 102, 281) returns: nobody holds the mutex exclusively
ReadLock(t) ==
    /\ Caller(t).pc = "rlock"
    /\ mutex.writer = 0
    /\ mutex' = [mutex EXCEPT !.readers = @ \cup {t}]
    /\ callers' = [callers EXCEPT ![t].pc = "read"]
    /\ UNCHANGED <<storeVars, mainVars, config, variant, source, call, pipeVars, histVars>>

\* the body of IsItemSeen (105-117) or GetLastUpdated (284-289), and the
\* deferred s.RUnlock() as the call returns
ReadUnlock(t) ==
    /\ Caller(t).pc = "read"
    /\ mutex' = [mutex EXCEPT !.readers = @ \ {t}]
    /\ callers' = [callers EXCEPT ![t] = IdleCaller]
    /\ UNCHANGED <<storeVars, mainVars, config, variant, source, call, pipeVars, histVars>>

LockInit == StoreInit

LockNext ==
    \E t \in Threads :
        \/ CallMark(t)
        \/ MarkLock(t)
        \/ MarkMem(t)
        \/ MarkOpen(t)
        \/ MarkWrite(t)
        \/ MarkRename(t)
        \/ MarkSaveFails(t)
        \/ MarkUnlock(t)
        \/ CallRead(t)
        \/ ReadLock(t)
        \/ ReadUnlock(t)

LockSpec == LockInit /\ [][LockNext]_vars

-----------------------------------------------------------------------------
(* main: the signal goroutine, the configuration watcher and the ticker loop *)

\* the configurations the configuration file may be changed to
MainConfigs == {CfgOneChannel, CfgTwoChannels, CfgSameURLTwice}

\* the signal goroutine (lines 60-64): a signal arrives and cancel() is
\* called; closing ctx.Done() wakes main if it is parked in its select, with
\* the case <-ctx.Done() chosen
Signal ==
    /\ ~ctxDone
    /\ ctxDone' = TRUE
    /\ mainPc' = IF mainPc = "blocked" THEN "done" ELSE mainPc
    /\ UNCHANGED <<storeVars, tickerC, hConfig, config, variant, source, call,
                   mutex, callers, pipeVars, histVars>>

\* the runtime sends a tick to ticker.C: it is handed to main if main is
\* parked in its select (the case <-ticker.C is chosen), else buffered; a
\* tick that finds the buffer full is dropped
TickerFire ==
    /\ mainPc # "exited"
    /\ IF mainPc = "blocked"
       THEN mainPc' = "tick" /\ UNCHANGED tickerC
       ELSE tickerC = 0 /\ tickerC' = 1 /\ UNCHANGED mainPc
    /\ UNCHANGED <<storeVars, ctxDone, hConfig, config, variant, source, call,
                   mutex, callers, pipeVars, histVars>>

\* an UpdateConfig that the processFeed goroutines under way would see
UpdateConfigLive(c) ==
    /\ mainPc # "exited"
    /\ c # hConfig
    /\ Validate(c)
    /\ hConfig' = c
    /\ config' = IF running /\ Len(c.Feeds) = Len(config.Feeds) THEN c ELSE config
    /\ UNCHANGED <<storeVars, ctxDone, tickerC, mainPc, variant, source, call,
                   mutex, callers, pipeVars, histVars>>

\* the file watcher reloads the file: Manager.Load validates it and calls
\* the callback registered by main, RssHandler.UpdateConfig (h.config = cfg)
UpdateConfig(c) ==
    /\ mainPc # "exited"
    /\ c # hConfig
    /\ Validate(c)
    /\ hConfig' = c
    /\ UNCHANGED <<storeVars, ctxDone, tickerC, mainPc, config, variant, source, call,
                   mutex, callers, pipeVars, histVars>>

\* main reaches its select (line 112): of the cases that are ready one is
\* chosen at random; with none ready main parks
MainSelect ==
    /\ mainPc = "select"
    /\ \/ ctxDone /\ mainPc' = "done" /\ UNCHANGED tickerC
       \/ tickerC = 1 /\ mainPc' = "tick" /\ tickerC' = 0
       \/ ~ctxDone /\ tickerC = 0 /\ mainPc' = "blocked" /\ UNCHANGED tickerC
    /\ UNCHANGED <<storeVars, ctxDone, hConfig, config, variant, source, call,
                   mutex, callers, pipeVars, histVars>>

\* case <-ctx.Done() (lines 113-115): main returns
MainShutdown ==
    /\ mainPc = "done"
    /\ mainPc' = "exited"
    /\ UNCHANGED <<storeVars, ctxDone, tickerC, hConfig, config, variant, source, call,
                   mutex, callers, pipeVars, histVars>>

\* the start of a ProcessFeeds call (lines 50-77): cfg := h.config under the
\* read lock, and one goroutine per feed of cfg; to is where main's loop
\* goes on
ProcessFeedsCall(to) ==
    /\ cycles < MaxCycles
    /\ mainPc' = to
    /\ config' = hConfig
    /\ cycles' = cycles + 1
    /\ running' = TRUE
    /\ feed' = [k \in 1..Len(hConfig.Feeds) |->
                   [InitFeed EXCEPT !.pc = "spawned",
                                    !.prev = IF k \in DOMAIN feed THEN feed[k].prev ELSE <<>>,
                                    !.prevSuppressed = IF k \in DOMAIN feed
                                                       THEN feed[k].prevSuppressed
                                                       ELSE FALSE]]
    /\ tasks' = [k \in 1..Len(hConfig.Feeds) |-> <<>>]
    /\ lastPos' = [k \in 1..Len(hConfig.Feeds) |-> [c \in Channels |-> 0]]
    /\ errors' = <<>>
    /\ UNCHANGED <<storeVars, ctxDone, tickerC, hConfig, variant, source, call, mutex,
                   callers, everMarked, procMarked, marks, sentOK, sentTwice, retryDue>>

\* a loop that starts the cycle in a goroutine of its own and selects again
MainProcessFeedsAsync ==
    /\ mainPc = "tick"
    /\ ProcessFeedsCall("select")

\* case <-ticker.C: main calls rssHandler.ProcessFeeds() (lines 116-117)
MainProcessFeeds ==
    /\ mainPc = "tick"
    /\ ProcessFeedsCall("ProcessFeeds")

\* ProcessFeeds has returned to main (lines 117-121): after an error main
\* sleeps five seconds
MainReturn ==
    /\ mainPc = "ProcessFeeds"
    /\ ~running
    /\ mainPc' = IF errors # <<>> THEN "sleep" ELSE "select"
    /\ UNCHANGED <<storeVars, ctxDone, tickerC, hConfig, config, variant, source, call,
                   mutex, callers, pipeVars, histVars>>

\* time.Sleep(time.Second * 5) is over
MainSleep ==
    /\ mainPc = "sleep"
    /\ mainPc' = "select"
    /\ UNCHANGED <<storeVars, ctxDone, tickerC, hConfig, config, variant, source, call,
                   mutex, callers, pipeVars, histVars>>

\* the state once main has built the store and the handler and reached its
\* loop
MainInit ==
    /\ states = NewStorage(EmptyMap, 0).states
    /\ files = EmptyMap
    /\ now = 0
    /\ startedAt = 0
    /\ ioFaults = FALSE
    /\ saving = NoSave
    /\ mutex = Unlocked
    /\ callers = NoCallers
    /\ startErr = FALSE
    /\ ctxDone = FALSE
    /\ tickerC = 0
    /\ mainPc = "select"
    /\ hConfig \in {c \in MainConfigs : Validate(c)}
    /\ config = hConfig
    /\ source = [payloads |-> {<<1>>}, mayFail |-> TRUE]
    /\ variant = "firstrun"
    /\ call = NoCall
    /\ running = FALSE
    /\ feed = [k \in 1..Len(config.Feeds) |-> InitFeed]
    /\ tasks = [k \in 1..Len(config.Feeds) |-> <<>>]
    /\ errors = <<>>
    /\ everMarked = {}
    /\ procMarked = {}
    /\ marks = 0
    /\ cycles = 0
    /\ lastPos = [k \in 1..Len(config.Feeds) |-> [c \in Channels |-> 0]]
    /\ sentOK = {}
    /\ sentTwice = {}
    /\ retryDue = {}

MainNext ==
    \/ Signal
    \/ TickerFire
    \/ \E c \in MainConfigs : UpdateConfig(c)
    \/ MainSelect
    \/ MainShutdown
    \/ MainProcessFeeds
    \/ MainReturn
    \/ MainSleep
    \/ ProcessFeedsReturn
    \/ \E k \in Feeds :
          \/ FeedEnter(k)
          \/ FeedRun(k)
          \/ \E t \in 1..Len(tasks[k]) : TaskWait(k, t) \/ TaskStep(k, t)

\* the process from the start of main's loop to its return
MainSpec == MainInit /\ [][MainNext]_vars

-----------------------------------------------------------------------------
(* The dedup store: claims C1-C3, checked under StoreSpec *)

AllTasks == {<<k, t>> \in (DOMAIN tasks) \X (1..4) : t <= Len(tasks[k])}

\* C1: once MarkItemSeen(feedURL, channel, id) has been called on a store,
\* IsItemSeen(feedURL, channel, id) is true on that store from then on,
\* whatever further calls are made on any bucket.
C1_NoFalseNegativeInProcess ==
    \A m \in procMarked : IsItemSeen(m[1], m[2], m[3])

\* three calls on two different buckets of one feed, all still seen
C1_Witness ==
    /\ Cardinality(procMarked) = 3
    /\ \E m1, m2 \in procMarked : m1[1] = m2[1] /\ m1[2] # m2[2]
    /\ \A m \in procMarked : IsItemSeen(m[1], m[2], m[3])

\* the bucket files written before the running store was built and not
\* expired when it was built, as <<name, channel, feedURL>>
LoadableBuckets ==
    { <<name, SplitN2(DecodeString(TrimSuffix(name, bloomFileSuffix)).val)>> :
        name \in {n \in DOMAIN files :
                     /\ HasSuffix(n, bloomFileSuffix)
                     /\ startedAt - files[n].ts <= stateExpirationDuration} }

\* C2: an id whose MarkItemSeen wrote the bucket file is seen by every store
\* built by NewStorage while the file's timestamp is within the 30-day
\* window, whatever other bucket files the data directory holds.
C2_PersistReloadRoundTrip ==
    \A b \in LoadableBuckets :
        \A id \in files[b[1]].ids : IsItemSeen(b[2][2], b[2][1], id)

\* C3 as stated: an id never passed to MarkItemSeen for a (feedURL, channel)
\* is never reported seen for it.
C3_NeverMarkedNeverSeen ==
    \A feedURL \in FeedURLs, channel \in Channels, id \in ItemIDs :
        <<feedURL, channel, id>> \notin everMarked => ~IsItemSeen(feedURL, channel, id)

\* C3 as amended: IsItemSeen is false when no bucket exists for the feed or
\* the channel; for an id never passed to MarkItemSeen for the pair it is
\* true only as a false positive of the filter, that is when every filter
\* position of the id was set by ids that were marked for the pair.
C3_NeverMarkedSeenOnlyByCollision ==
    \A feedURL \in FeedURLs, channel \in Channels, id \in ItemIDs :
        /\ ~HasBucket(states, feedURL, channel) => ~IsItemSeen(feedURL, channel, id)
        /\ (<<feedURL, channel, id>> \notin everMarked /\ IsItemSeen(feedURL, channel, id))
              => BloomLocations(id) \subseteq
                    UNION {BloomLocations(j) :
                              j \in {i \in ItemIDs : <<feedURL, channel, i>> \in everMarked}}

\* a bucket that holds an id and reports another, never marked, id unseen
C3_Witness ==
    \E feedURL \in FeedURLs, channel \in Channels, id \in ItemIDs :
        /\ HasBucket(states, feedURL, channel)
        /\ states[feedURL][channel].ids # {}
        /\ <<feedURL, channel, id>> \notin everMarked
        /\ ~IsItemSeen(feedURL, channel, id)

-----------------------------------------------------------------------------
(* The delivery pipeline: claims C4-C10, checked under Spec *)

\* C4: a delivery task calls MarkItemSeen only after one of its own Send
\* calls returned without error: never before its first Send and never
\* after its three attempts all failed.
C4_MarkOnlyAfterSuccessfulSend ==
    /\ [](\A x \in AllTasks :
             tasks[x[1]][x[2]].markCalls > 0 => tasks[x[1]][x[2]].sendSuccess)
    /\ [][\A x \in AllTasks :
             (/\ x[2] <= Len(tasks'[x[1]])
              /\ tasks'[x[1]][x[2]].markCalls > tasks[x[1]][x[2]].markCalls)
                => (/\ tasks[x[1]][x[2]].sendSuccess
                    /\ tasks[x[1]][x[2]].sends >= 1
                    /\ <<config.Feeds[x[1]].URL, tasks[x[1]][x[2]].channel,
                         ItemIDOf(tasks[x[1]][x[2]].item)>> \in sentOK)]_vars

\* a task that marked after its third attempt succeeded
C4_Witness ==
    \E x \in AllTasks :
        /\ tasks[x[1]][x[2]].markCalls = 1
        /\ tasks[x[1]][x[2]].sends = 3
        /\ tasks[x[1]][x[2]].sendSuccess

\* C5: with every MarkItemSeen succeeding, no (feedURL, channel, id) has more
\* than one successful Send, for every configuration Validate accepts.
C5_AtMostOnce ==
    ~ioFaults => sentTwice = {}

\* the <<feedURL, channel, id>> of item n of feed k on a channel
Triple(k, channel, n) == <<config.Feeds[k].URL, channel, ItemIDOf(n)>>

\* feed k is configured to push to the channel
HasChannel(k, channel) ==
    \E c \in 1..Len(config.Feeds[k].Channels) : config.Feeds[k].Channels[c] = channel

\* item n has a non-empty rendering, is in every payload feed k fetches and
\* is inside the article expiration window
Eligible(k, channel, n) ==
    /\ k \in DOMAIN config.Feeds
    /\ HasChannel(k, channel)
    /\ \A payload \in source.payloads : \E i \in 1..Len(payload) : payload[i] = n
    /\ formatMessage(ItemPool[n], config.Feeds[k].Template) # ""
    /\ ~IsStale(config.Feeds[k], ItemPool[n])

\* the item was successfully sent to the channel and is marked seen for it
Delivered(k, channel, n) ==
    /\ Triple(k, channel, n) \in sentOK
    /\ IsItemSeen(config.Feeds[k].URL, channel, ItemIDOf(n))

\* a step marks an id for a channel only after a successful Send of the id
\* to the channel, or in the first-run suppression of a feed with that URL
MarkedOnlyWhenSent ==
    [][\A m \in everMarked' \ everMarked :
          \/ m \in sentOK
          \/ \E k \in DOMAIN feed :
                /\ feed[k].pc = "filter"
                /\ feed[k].isFirstRun
                /\ ~config.Feeds[k].FirstPush
                /\ config.Feeds[k].URL = m[1]]_vars

\* C6 as stated: an item with a non-empty rendering that stays in the fetched
\* feed and inside the expiration window, on a channel whose Sends eventually
\* succeed, is eventually sent to the channel and marked seen for it; and an
\* id is marked for a channel only after a Send there, first-run suppression
\* apart.
C6_AtLeastDelivered ==
    /\ \A k \in LiveFeeds : \A channel \in Channels : \A n \in DOMAIN ItemPool :
          <>(Eligible(k, channel, n) => Delivered(k, channel, n))
    /\ MarkedOnlyWhenSent

\* C6 as amended: the same for an item that has a title or a link, unless
\* its id was marked for the channel by first-run suppression or the filter
\* reports the never-marked id seen (a false positive).
C6_DeliveredUnlessSuppressedOrCollision ==
    /\ \A k \in LiveFeeds : \A channel \in Channels : \A n \in DOMAIN ItemPool :
          <>((/\ Eligible(k, channel, n)
              /\ (ItemPool[n].Title # "" \/ ItemPool[n].Link # ""))
                => \/ Delivered(k, channel, n)
                   \/ (/\ Triple(k, channel, n) \in everMarked
                       /\ Triple(k, channel, n) \notin sentOK)
                   \/ (/\ Triple(k, channel, n) \notin everMarked
                       /\ IsItemSeen(config.Feeds[k].URL, channel, ItemIDOf(n))))
    /\ MarkedOnlyWhenSent

\* an item whose delivery was given up in one cycle and that a later cycle
\* sent and marked
C6_Witness ==
    \E d \in retryDue :
        /\ Eligible(d[1], d[2], d[3])
        /\ Delivered(d[1], d[2], d[3])

\* C7: a delivery task calls Send at most 3 times, and not again after a
\* Send that succeeded.
C7_RetryCeiling ==
    /\ [](\A x \in AllTasks : tasks[x[1]][x[2]].sends <= 3)
    /\ [][\A x \in AllTasks :
             (/\ x[2] <= Len(tasks'[x[1]])
              /\ tasks'[x[1]][x[2]].sends > tasks[x[1]][x[2]].sends)
                => ~tasks[x[1]][x[2]].sendSuccess]_vars

\* a task that has made its third Send
C7_Witness ==
    \E x \in AllTasks : tasks[x[1]][x[2]].sends = 3

\* C8: when a delivery task ends it has called MarkItemSeen once if one of
\* its attempts succeeded and not at all otherwise, and it has slept once
\* after each failed attempt except a failed last one.
C8_RetryAccounting ==
    \A x \in AllTasks :
        LET task == tasks[x[1]][x[2]]
        IN  /\ task.markCalls <= 1
            /\ task.pc = "exit" =>
                  /\ task.markCalls = (IF task.sendSuccess THEN 1 ELSE 0)
                  /\ task.sleeps = task.sends - 1
                  /\ ~task.sendSuccess => task.sends = 3 /\ task.sleeps = 2

\* fail, fail, success: one MarkItemSeen and two sleeps
C8_Witness ==
    \E x \in AllTasks :
        LET task == tasks[x[1]][x[2]]
        IN  /\ task.pc = "exit"
            /\ task.sendSuccess
            /\ task.sends = 3
            /\ task.sleeps = 2
            /\ task.markCalls = 1

\* wg.Wait() of feed k is about to return
EndOfCycle(k) ==
    /\ feed[k].pc = "wait"
    /\ \A t \in 1..Len(tasks[k]) : tasks[k][t].pc = "done"

\* the cycle under way of feed k has a delivery task for the channel and the
\* id of item n
HasTask(k, channel, n) ==
    \E t \in 1..Len(tasks[k]) :
        /\ tasks[k][t].channel = channel
        /\ ItemIDOf(tasks[k][t].item) = ItemIDOf(n)

\* the ids marked for (feedURL, channel) other than id set every filter
\* position of id
Collides(feedURL, channel, id) ==
    BloomLocations(id) \subseteq
        UNION {BloomLocations(j) :
                  j \in {i \in ItemIDs \ {id} : <<feedURL, channel, i>> \in everMarked}}

\* C9 as stated: after a delivery task for (id, channel) has used up its
\* attempts the id is unseen for the channel at the end of the cycle, and
\* the next cycle of the feed that fetches the item has a delivery task for
\* (id, channel).
C9_RetriedNextCycle ==
    /\ \A k \in DOMAIN feed :
          EndOfCycle(k) =>
              \A d \in Exhausted(k) :
                  ~IsItemSeen(config.Feeds[k].URL, d[2], ItemIDOf(d[3]))
    /\ \A d \in retryDue :
          (feed[d[1]].pc = "wait" /\ Fetched(d[1], d[3])) => HasTask(d[1], d[2], d[3])

\* C9 as amended: the task that used up its attempts has not marked the id,
\* which is unseen for the channel at the end of the cycle unless another
\* Send of the same id to the same channel succeeded or the filter gives a
\* false positive; and the next cycle of the feed that fetches the item has
\* a delivery task for (id, channel) unless the item is outside the article
\* expiration window by then or the id is reported seen for the channel.
C9_RetriedUnlessStaleOrSeen ==
    /\ \A k \in DOMAIN feed :
          EndOfCycle(k) =>
              \A t \in 1..Len(tasks[k]) :
                  ~tasks[k][t].sendSuccess =>
                      /\ tasks[k][t].markCalls = 0
                      /\ IsItemSeen(config.Feeds[k].URL, tasks[k][t].channel,
                                    ItemIDOf(tasks[k][t].item))
                            => \/ Triple(k, tasks[k][t].channel, tasks[k][t].item) \in sentOK
                               \/ Collides(config.Feeds[k].URL, tasks[k][t].channel,
                                           ItemIDOf(tasks[k][t].item))
    /\ \A d \in retryDue :
          (feed[d[1]].pc = "wait" /\ Fetched(d[1], d[3]))
              => \/ HasTask(d[1], d[2], d[3])
                 \/ IsStale(config.Feeds[d[1]], ItemPool[d[3]])
                 \/ IsItemSeen(config.Feeds[d[1]].URL, d[2], ItemIDOf(d[3]))

\* the cycle after the one that gave an item up has sent it
C9_Witness ==
    \E d \in retryDue :
        /\ EndOfCycle(d[1])
        /\ Fetched(d[1], d[3])
        /\ \E t \in 1..Len(tasks[d[1]]) :
              /\ tasks[d[1]][t].channel = d[2]
              /\ tasks[d[1]][t].item = d[3]
              /\ tasks[d[1]][t].sendSuccess

\* no bucket file exists for any channel of feed k
NoBucketFile(k) ==
    \A c \in 1..Len(config.Feeds[k].Channels) :
        GetBloomFilePath(config.Feeds[k].URL, config.Feeds[k].Channels[c]) \notin DOMAIN files

\* the cycle under way of feed k suppresses its batch
Suppressing(k) == feed[k].isFirstRun /\ ~config.Feeds[k].FirstPush

\* the candidate loop of feed k is over
Filtered(k) == feed[k].pc \in {"sort", "dispatch", "wait"}

\* item n has a title or a link
Addressable(n) == ItemPool[n].Title # "" \/ ItemPool[n].Link # ""

\* the probe of processFeed finds a first run exactly when no bucket file
\* exists for any channel of the feed
ProbeIsExact ==
    [][\A k \in DOMAIN feed :
          (variant = "firstrun" /\ feed[k].pc = "fetch" /\ feed'[k].pc = "filter")
              => (feed'[k].isFirstRun <=> NoBucketFile(k))]_vars

\* a cycle that does not suppress marks nothing in its candidate loop
NoMarkUnlessSuppressing ==
    [][\A k \in DOMAIN feed :
          (feed[k].pc = "filter" /\ feed'[k] # feed[k] /\ ~Suppressing(k))
              => (states' = states /\ everMarked' = everMarked)]_vars

\* C11 as stated: a cycle of the first-run handler suppresses the batch
\* exactly when firstPush is false and no bucket file exists for any channel
\* of the feed; a suppressing cycle starts no delivery task and has every
\* fetched item seen for every channel; any other cycle suppresses nothing.
C11_FirstRunSuppression ==
    /\ ProbeIsExact
    /\ NoMarkUnlessSuppressing
    /\ [](\A k \in DOMAIN feed :
             (Filtered(k) /\ Suppressing(k)) =>
                 /\ tasks[k] = <<>>
                 /\ feed[k].newItems = <<>>
                 /\ \A i \in 1..Len(feed[k].payload) :
                    \A c \in 1..Len(config.Feeds[k].Channels) :
                        /\ IsItemSeen(config.Feeds[k].URL, config.Feeds[k].Channels[c],
                                      ItemIDOf(feed[k].payload[i]))
                        /\ Triple(k, config.Feeds[k].Channels[c], feed[k].payload[i])
                              \in everMarked \ sentOK)

\* C11 as amended: the same, the items marked being the fetched items that
\* have a title or a link.
C11_SuppressionOfAddressableItems ==
    /\ ProbeIsExact
    /\ NoMarkUnlessSuppressing
    /\ [](\A k \in DOMAIN feed :
             (Filtered(k) /\ Suppressing(k)) =>
                 /\ tasks[k] = <<>>
                 /\ feed[k].newItems = <<>>
                 /\ \A i \in 1..Len(feed[k].payload) :
                    \A c \in 1..Len(config.Feeds[k].Channels) :
                        Addressable(feed[k].payload[i]) =>
                            /\ IsItemSeen(config.Feeds[k].URL, config.Feeds[k].Channels[c],
                                          ItemIDOf(feed[k].payload[i]))
                            /\ Triple(k, config.Feeds[k].Channels[c], feed[k].payload[i])
                                  \in everMarked \ sentOK)

\* a suppressed first cycle over two items, both marked and none sent
C11_Witness ==
    \E k \in DOMAIN feed :
        /\ feed[k].pc = "wait"
        /\ Suppressing(k)
        /\ Len(feed[k].payload) = 2
        /\ \A i \in 1..2 : Addressable(feed[k].payload[i])
        /\ \A i \in 1..2 :
              IsItemSeen(config.Feeds[k].URL, config.Feeds[k].Channels[1],
                         ItemIDOf(feed[k].payload[i]))
        /\ sentOK = {}

\* the ids of the items of a payload
PayloadIDs(payload) == {ItemIDOf(payload[i]) : i \in 1..Len(payload)}

\* the delivery tasks of feed k for the channel and the id
TasksFor(k, channel, id) ==
    {t \in 1..Len(tasks[k]) :
        tasks[k][t].channel = channel /\ ItemIDOf(tasks[k][t].item) = id}

\* feed k of the first-run handler has firstPush=false, its preceding cycle
\* was a suppressed first run, and the cycle under way has dispatched a
\* payload that is the preceding one plus one new item
SecondCycleWithOneNewItem(k) ==
    /\ variant = "firstrun"
    /\ ~config.Feeds[k].FirstPush
    /\ feed[k].prevSuppressed
    /\ feed[k].pc = "wait"
    /\ PayloadIDs(feed[k].prev) \subseteq PayloadIDs(feed[k].payload)
    /\ Cardinality(PayloadIDs(feed[k].payload) \ PayloadIDs(feed[k].prev)) = 1

C13_FeedConcurrencyCap ==
    /\ [](Cardinality({k \in DOMAIN feed :
                          feed[k].pc \in {"fetch", "filter", "sort", "dispatch", "wait"}}) <= 2)
    /\ \A k \in CapFeeds : (feed[k].pc = "spawned") ~> (feed[k].pc = "fetch")

\* two feeds inside processFeed, one of them sending, and a third waiting
C13_Witness ==
    /\ Cardinality(FeedsInside) = 2
    /\ \E k \in DOMAIN feed : feed[k].pc = "spawned"
    /\ \E k \in DOMAIN feed : \E t \in 1..Len(tasks[k]) : tasks[k][t].pc = "send"

\* C14: within one feed the delivery tasks that hold a pool slot (sending,
\* in backoff, marking or in the cooldown) never number more than the pool
\* size, 1 in the first-run handler and 2 in the other; and the pool belongs
\* to the feed: a task waiting for a slot can take one whenever fewer than
\* that many tasks of its own feed hold one, whatever other feeds' tasks hold.
C14_SendCapPerFeed ==
    \A k \in DOMAIN tasks :
        LET holding == {t \in 1..Len(tasks[k]) :
                           tasks[k][t].pc \in {"send", "backoff", "after", "cooldown", "exit"}}
            poolSize == IF variant = "firstrun" THEN 1 ELSE 2
        IN  /\ Cardinality(holding) <= poolSize
            /\ \A t \in 1..Len(tasks[k]) :
                  (tasks[k][t].pc = "blocked" /\ Cardinality(holding) < poolSize)
                      => ENABLED TaskAcquire(k, t)

\* the pool of size 2 is full and a third task of the feed waits
C14_Witness ==
    \E k \in DOMAIN tasks :
        /\ variant = "legacy"
        /\ Cardinality(Holding(k)) = 2
        /\ \E t \in 1..Len(tasks[k]) : tasks[k][t].pc = "blocked"

\* C15: the failing fetch of a feed changes nothing of the store, of the
\* delivery tasks or of the other feeds; the cycle still ends, and when it
\* has ended every other feed has been fetched and processed with all its
\* delivery tasks finished, and nothing is marked or written for the failing
\* feed.
C15_FeedIsolation ==
    /\ [][\A k \in DOMAIN feed :
             (feed[k].pc = "fetch" /\ feed'[k].outcome = "failed") =>
                 /\ states' = states
                 /\ files' = files
                 /\ tasks' = tasks
                 /\ \A j \in DOMAIN feed \ {k} : feed'[j] = feed[j]]_vars
    /\ [](\A k \in DOMAIN feed :
             (cycles > 0 /\ ~running) =>
                 /\ feed[k].outcome \in {"failed", "empty", "processed"}
                 /\ tasks[k] = <<>>
                 /\ feed[k].outcome = "processed" =>
                       /\ feed[k].prev # <<>>
                       /\ \A i \in 1..Len(feed[k].prev) :
                          \A c \in 1..Len(config.Feeds[k].Channels) :
                              \/ Triple(k, config.Feeds[k].Channels[c], feed[k].prev[i]) \in sentOK
                              \/ <<k, config.Feeds[k].Channels[c], feed[k].prev[i]>> \in retryDue
                              \/ formatMessage(ItemPool[feed[k].prev[i]],
                                               config.Feeds[k].Template) = ""
                 /\ feed[k].outcome = "failed" =>
                       \A c \in 1..Len(config.Feeds[k].Channels) :
                           /\ GetBloomFilePath(config.Feeds[k].URL, config.Feeds[k].Channels[c])
                                 \notin DOMAIN files
                           /\ ~HasBucket(states, config.Feeds[k].URL, config.Feeds[k].Channels[c]))
    /\ running ~> ~running

\* one feed failed and the two others each delivered their item
C15_Witness ==
    /\ cycles > 0
    /\ ~running
    /\ feed[3].outcome = "failed"
    /\ \A k \in {1, 2} :
          /\ feed[k].outcome = "processed"
          /\ Triple(k, config.Feeds[k].Channels[1], feed[k].prev[1]) \in sentOK

\* the entries of the combined error that name the feed
ErrorEntries(name) == {i \in 1..Len(errors) : errors[i].feed = name}

\* C16: when ProcessFeeds returns, its error is non-nil (errChan held an
\* entry) exactly when the fetch of some feed failed, and it has exactly one
\* entry, with the feed's name, for each feed whose fetch failed and none
\* for any other feed, whatever became of the sends, renderings and
\* MarkItemSeen calls of the cycle.
C16_ErrorAggregation ==
    (cycles > 0 /\ ~running) =>
        /\ errors # <<>> <=> \E k \in DOMAIN feed : feed[k].outcome = "failed"
        /\ \A k \in DOMAIN feed :
              Cardinality(ErrorEntries(config.Feeds[k].Name)) =
                  (IF feed[k].outcome = "failed" THEN 1 ELSE 0)
        /\ Len(errors) = Cardinality({k \in DOMAIN feed : feed[k].outcome = "failed"})

\* two feeds failed; the third gave up its send and contributes no entry
C16_Witness ==
    /\ cycles > 0
    /\ ~running
    /\ Len(errors) = 2
    /\ \E k \in DOMAIN feed :
          /\ feed[k].outcome = "processed"
          /\ \E d \in retryDue : d[1] = k

\* the delivery goroutines of feed k that have not returned
Unfinished(k) == {t \in 1..Len(tasks[k]) : tasks[k][t].pc # "done"}

\* the feed goroutines that have not returned
FeedsUnfinished == {k \in DOMAIN feed : feed[k].pc \notin {"none", "done"}}

\* C17: a feed whose processFeed has returned has no unfinished delivery
\* task, no feed goroutine is unfinished while ProcessFeeds is not running,
\* and no step taken while ProcessFeeds is not running sends a message,
\* marks an id or changes the store, its files or a task.
C17_CompletionBarrier ==
    /\ [](\A k \in DOMAIN feed : k \notin FeedsUnfinished => Unfinished(k) = {})
    /\ [](~running => FeedsUnfinished = {})
    /\ [][~running => UNCHANGED <<states, files, tasks, sentOK, sentTwice,
                                  everMarked, procMarked, lastPos>>]_vars

\* one feed has returned while the other waits for a delivery task that is
\* still sending, and ProcessFeeds has not returned
C17_Witness ==
    /\ running
    /\ \E k, j \in DOMAIN feed :
          /\ feed[k].outcome = "processed"
          /\ \E d \in sentOK : d[1] = config.Feeds[k].URL
          /\ feed[j].pc = "wait"
          /\ \E t \in Unfinished(j) : tasks[j][t].pc = "send"

\* the buckets of the model
Buckets == FeedURLs \X Channels

\* the data directory without the files NewStorage's glob does not list
BucketFilesOnly(fs) == [n \in {x \in DOMAIN fs : HasSuffix(x, bloomFileSuffix)} |-> fs[n]]

\* a whole file whose filter holds exactly the positions of its ids
CompleteSnapshot(f) ==
    /\ f.data = "full"
    /\ f.filter = UNION {BloomLocations(id) : id \in f.ids}

\* the bucket file a completed save of the bucket's state in memory leaves
SnapshotOf(state, t) ==
    [ts |-> t, filter |-> state.filter, ids |-> state.ids, data |-> "full"]

\* C18: whatever step of saveChannelState the process is at, each bucket
\* file in the data directory is a complete snapshot, a NewStorage on the
\* directory would succeed, report every id of each bucket file as seen,
\* and give the same store as without the temp files; the NewStorage that
\* follows a kill does succeed and does report those ids; and a step
\* never removes a bucket file and changes one only by the rename, to the
\* complete snapshot of the bucket's state in memory.
C18_CrashSafePersist ==
    /\ [](LET r == NewStorage(files, now)
          IN  /\ ~r.err
              /\ r = NewStorage(BucketFilesOnly(files), now)
              /\ \A b \in Buckets :
                    LET p == GetBloomFilePath(b[1], b[2])
                    IN  p \in DOMAIN files =>
                          /\ CompleteSnapshot(files[p])
                          /\ HasBucket(r.states, b[1], b[2])
                          /\ \A id \in files[p].ids :
                                BloomTest(r.states[b[1]][b[2]].filter, id))
    /\ [](~startErr)
    /\ []((saving.pc = "none" /\ procMarked = {}) =>
             \A b \in Buckets :
                 LET p == GetBloomFilePath(b[1], b[2])
                 IN  p \in DOMAIN files =>
                        \A id \in files[p].ids : IsItemSeen(b[1], b[2], id))
    /\ [][\A b \in Buckets :
             LET p == GetBloomFilePath(b[1], b[2])
             IN  /\ p \in DOMAIN files => p \in DOMAIN files'
                 /\ (p \in DOMAIN files' /\ (p \notin DOMAIN files \/ files'[p] # files[p])) =>
                       /\ saving.pc = "closed"
                       /\ b = <<saving.feedURL, saving.channel>>
                       /\ files'[p] = SnapshotOf(states[b[1]][b[2]], now)]_vars

\* the process was killed during its second save of a bucket, after a part
\* of the filter was written: the temp file is left with that part, the
\* bucket file is the first snapshot, and the new store reports its id
C18_Witness ==
    /\ saving.pc = "none"
    /\ procMarked = {}
    /\ marks = 2
    /\ \E b \in Buckets :
          /\ TempFilePath(b[1], b[2]) \in DOMAIN files
          /\ files[TempFilePath(b[1], b[2])].data = "partial"
          /\ GetBloomFilePath(b[1], b[2]) \in DOMAIN files
          /\ files[GetBloomFilePath(b[1], b[2])].ids = {"g1"}
          /\ IsItemSeen(b[1], b[2], "g1")
          /\ ~IsItemSeen(b[1], b[2], "g2")

\* the bucket file of bucket b holds a timestamp older, at the time of the
\* load, than the expiration window
ExpiredAtLoad(b) ==
    /\ GetBloomFilePath(b[1], b[2]) \in DOMAIN files
    /\ files[GetBloomFilePath(b[1], b[2])].data # "short"
    /\ startedAt - files[GetBloomFilePath(b[1], b[2])].ts > stateExpirationDuration

\* the bucket file of bucket b is a whole file with a timestamp within the
\* expiration window at the time of the load
FreshAtLoad(b) ==
    /\ GetBloomFilePath(b[1], b[2]) \in DOMAIN files
    /\ files[GetBloomFilePath(b[1], b[2])].data = "full"
    /\ startedAt - files[GetBloomFilePath(b[1], b[2])].ts <= stateExpirationDuration

\* C19: after a NewStorage that succeeded, a bucket whose file was expired
\* at load time has an empty filter (IsItemSeen false for every id) and
\* lastUpdated equal to the load time, and a bucket whose file was within
\* the window has the file's ids and the file's timestamp; and NewStorage
\* does not fail when every file is either well-formed and within the
\* window or expired, whatever the filter bytes of the expired ones.
C19_ExpiryResetOnLoad ==
    /\ ~startErr =>
          \A b \in LoadBuckets :
              /\ ExpiredAtLoad(b) =>
                    /\ HasBucket(states, b[1], b[2])
                    /\ states[b[1]][b[2]].updatedAt = startedAt
                    /\ \A id \in ItemIDs : ~IsItemSeen(b[1], b[2], id)
              /\ FreshAtLoad(b) =>
                    /\ HasBucket(states, b[1], b[2])
                    /\ states[b[1]][b[2]].updatedAt = files[GetBloomFilePath(b[1], b[2])].ts
                    /\ \A id \in files[GetBloomFilePath(b[1], b[2])].ids :
                          IsItemSeen(b[1], b[2], id)
    /\ (/\ DOMAIN files \subseteq {GetBloomFilePath(b[1], b[2]) : b \in LoadBuckets}
        /\ \A b \in LoadBuckets :
              GetBloomFilePath(b[1], b[2]) \in DOMAIN files =>
                  ExpiredAtLoad(b) \/ FreshAtLoad(b))
       => ~startErr

\* a name the glob lists that is not base64 text, or whose decoded text has
\* no "|"
Malformed(n) ==
    /\ HasSuffix(n, bloomFileSuffix)
    /\ \/ DecodeString(TrimSuffix(n, bloomFileSuffix)).err
       \/ Len(SplitN2(DecodeString(TrimSuffix(n, bloomFileSuffix)).val)) # 2

\* C20: after a NewStorage on a data directory that holds a bucket file
\* with a malformed name, the call has returned an error and no store.
C20_MalformedFilenameFatal ==
    (\E n \in DOMAIN files : Malformed(n)) => (startErr /\ states = EmptyMap)

\* the bucket file of bucket b is corrupt for the load: it is shorter than
\* its timestamp, or its timestamp is within the window and its filter
\* bytes do not deserialize
CorruptAtLoad(b) ==
    /\ GetBloomFilePath(b[1], b[2]) \in DOMAIN files
    /\ \/ files[GetBloomFilePath(b[1], b[2])].data = "short"
       \/ /\ files[GetBloomFilePath(b[1], b[2])].data = "partial"
          /\ startedAt - files[GetBloomFilePath(b[1], b[2])].ts <= stateExpirationDuration

\* C21: after a NewStorage on a data directory in which some bucket file is
\* shorter than the timestamp, or is unexpired with filter bytes that do
\* not deserialize, the call has returned an error and no store, whatever
\* other bucket files the directory holds.
C21_CorruptBucketFatal ==
    (\E b \in LoadBuckets : CorruptAtLoad(b)) => (startErr /\ states = EmptyMap)

\* the first file listed is whole and within the window, the second is
\* shorter than its timestamp: startup failed and left no store
C21_Witness ==
    /\ DOMAIN files = {GetBloomFilePath(b[1], b[2]) : b \in LoadBuckets}
    /\ FreshAtLoad(<< <<"u", "1">>, <<"@", "a">> >>)
    /\ files[GetBloomFilePath(<<"u", "1">>, <<"@", "b">>)].data = "short"
    /\ startErr
    /\ states = EmptyMap

\* a call of op has returned
Returned(op) == call.op = op /\ call.n > 0

\* a step that calls op again on the same input
CalledAgain(op) == Returned(op) /\ call'.n > call.n

\* C22: the id generateItemID returns is the GUID if it is non-empty, else
\* the link if it is non-empty, else title "|" published if both are
\* non-empty, else "content:" and the hash of the content; and a second
\* call on the same item returns the same id.
C22_IdentityPriorityChain ==
    /\ [](Returned("generateItemID") =>
            LET item == call.arg
            IN  /\ item.GUID # "" => call.ret.id = item.GUID
                /\ (item.GUID = "" /\ item.Link # "") => call.ret.id = item.Link
                /\ (item.GUID = "" /\ item.Link = "" /\ item.Title # "" /\ item.Published # "")
                      => call.ret.id = item.Title \o "|" \o item.Published
                /\ (item.GUID = "" /\ item.Link = "" /\ (item.Title = "" \/ item.Published = ""))
                      => call.ret.id = "content:" \o Sha256Hex(item.Content))
    /\ [][CalledAgain("generateItemID") => call'.ret = call.ret]_vars

\* an item with a title but no GUID, link or publish string was resolved
\* twice, to the hash of its content
C22_Witness ==
    /\ call.op = "generateItemID"
    /\ call.n = 2
    /\ call.arg.GUID = "" /\ call.arg.Link = ""
    /\ call.arg.Title = "t" /\ call.arg.Published = ""
    /\ call.ret.id = "content:" \o Sha256Hex(call.arg.Content)

\* C23: the bucket file name of a (channel, feedURL) pair is the same at
\* every call, the startup decoding of the name gives back the channel and
\* the feedURL, and no other pair has the same bucket file name.
C23_FileNameRoundTrip ==
    /\ [](Returned("GetBloomFilePath") =>
            /\ call.ret.decoded.loaded
            /\ call.ret.decoded.channel = call.arg.channel
            /\ call.ret.decoded.feedURL = call.arg.feedURL
            /\ \A other \in NamePairs :
                  GetBloomFilePath(other.feedURL, other.channel) = call.ret.name
                      => other = call.arg)
    /\ [][CalledAgain("GetBloomFilePath") => call'.ret = call.ret]_vars

\* what the operations of a chain make of a result, one after the other
RECURSIVE ChainResult(_, _)
ChainResult(chain, result) ==
    IF chain = <<>> THEN result
    ELSE LET o == Head(chain)
             name == TrimSpace(o.name)
             next == IF ~o.colon THEN result
                     ELSE IF name = opDefault
                     THEN (IF result = <<>> THEN o.params ELSE result)
                     ELSE IF name = opExtract THEN ExtractProcess(result, o.params)
                     ELSE IF name = opReplace THEN ReplaceProcess(result, o.params)
                     ELSE result
         IN  ChainResult(Tail(chain), next)

\* C24: ProcessField on a field written as a name and operations joined by
\* "|" returns the content passed through the operations as written, from
\* left to right (an escaped "|" belongs to the parameter it is in): the
\* content itself if there is no operation, the parameter of a default
\* only where the result so far is empty, and the result unchanged by an
\* operation with an unknown name or without ":".
C24_TemplateOperationChain ==
    Returned("ProcessField") =>
        /\ call.ret.text = ChainResult(call.arg.chain, call.arg.content)
        /\ call.arg.chain = <<>> => call.ret.text = call.arg.content

\* an extract whose pattern holds an escaped "|" found its match, and the
\* default after it left the match as it was
C24_Witness ==
    /\ call.op = "ProcessField"
    /\ call.n = 2
    /\ call.arg.chain = << Operation(opExtract, TRUE, <<"a", "\\", "|", "b">>),
                           Operation(opDefault, TRUE, <<"z">>) >>
    /\ call.arg.content = <<"a", "|", "b">>
    /\ call.ret.text = <<"a", "|", "b">>

\* the goroutines inside MarkItemSeen, between its Lock and its Unlock
Marking == {t \in Threads : Caller(t).pc \in {"mem", "open", "write", "rename", "unlock"}}

\* the goroutines inside the body of IsItemSeen or GetLastUpdated
Reading == {t \in Threads : Caller(t).pc = "read"}

\* the goroutines at a step of saveChannelState on the temp file of bucket b
Saving(b) ==
    {t \in Threads : /\ Caller(t).pc \in {"write", "rename"}
                     /\ b = <<Caller(t).feedURL, Caller(t).channel>>}

\* C25: a goroutine inside MarkItemSeen, from its first step to the end of
\* its persist step, holds the mutex exclusively; at most one goroutine is
\* inside MarkItemSeen; none is inside IsItemSeen or GetLastUpdated while
\* one is inside MarkItemSeen; and at most one goroutine is at work on the
\* temp file of a bucket.
C25_StoreMutualExclusion ==
    /\ \A t \in Marking : mutex.writer = t
    /\ Cardinality(Marking) <= 1
    /\ Marking # {} => Reading = {}
    /\ \A b \in Buckets : Cardinality(Saving(b)) <= 1

\* one goroutine is writing the temp file of a bucket while another waits
\* for the lock to mark the same bucket and a third waits to read
C25_Witness ==
    \E t, u, r \in Threads :
        /\ Caller(t).pc = "write"
        /\ Caller(u).pc = "lock"
        /\ Caller(u).feedURL = Caller(t).feedURL /\ Caller(u).channel = Caller(t).channel
        /\ Caller(r).pc = "rlock"

\* C26: a step of the running process (one that is not the start of a new
\* process) leaves every id that a bucket reported seen reported seen,
\* removes no bucket, and does not lower the lastUpdated of a bucket.
C26_BucketMonotonicity ==
    [][\/ \A b \in Buckets :
             /\ \A id \in ItemIDs : IsItemSeen(b[1], b[2], id) => IsItemSeen(b[1], b[2], id)'
             /\ HasBucket(states, b[1], b[2]) => HasBucket(states', b[1], b[2])
             /\ GetLastUpdated(b[1], b[2])' >= GetLastUpdated(b[1], b[2])
       \/ Restart]_vars

\* one process has marked two ids of one bucket and an id of its sibling
\* bucket, the last of them at a later time than the first; all are seen
C26_Witness ==
    /\ startedAt = 0
    /\ now > 0
    /\ \E u \in FeedURLs, c, d \in Channels :
          /\ c # d
          /\ {<<u, c, "g1">>, <<u, c, "g2">>, <<u, d, "g1">>} \subseteq procMarked
          /\ IsItemSeen(u, c, "g1") /\ IsItemSeen(u, c, "g2") /\ IsItemSeen(u, d, "g1")
          /\ GetLastUpdated(u, c) > GetLastUpdated(u, d)
          /\ GetLastUpdated(u, d) >= 0

\* the buckets of the in-memory map that a MarkItemSeen of this process has
\* marked
MarkedBuckets ==
    {b \in Buckets : /\ HasBucket(states, b[1], b[2])
                     /\ \E id \in ItemIDs : <<b[1], b[2], id>> \in procMarked}

FilterStep(k) == feed[k].pc = "filter" /\ feed'[k] # feed[k]

DispatchStep(k) == feed[k].pc = "dispatch" /\ feed'[k] # feed[k]

\* the iteration of the candidate loop appends its item to newItems
Survives(k) == feed'[k].newItems = Append(feed[k].newItems, feed[k].payload[feed[k].idx])

\* some channel of feed k does not report the id of item n as seen
SomeChannelUnseen(k, n) ==
    \E c \in 1..Len(config.Feeds[k].Channels) :
        ~IsItemSeen(config.Feeds[k].URL, config.Feeds[k].Channels[c], ItemIDOf(n))

\* the iteration of the dispatch loop starts a delivery task for its item
\* and channel, resp. starts none
TaskCreated(k) ==
    /\ Len(tasks'[k]) = Len(tasks[k]) + 1
    /\ SubSeq(tasks'[k], 1, Len(tasks[k])) = tasks[k]
    /\ tasks'[k][Len(tasks'[k])].channel = config.Feeds[k].Channels[feed[k].ci]
    /\ tasks'[k][Len(tasks'[k])].item = feed[k].newItems[feed[k].idx]
    /\ tasks'[k][Len(tasks'[k])].pc = "blocked"

NoTaskCreated(k) == tasks'[k] = tasks[k]

\* the channel of the dispatch iteration does not report the item's id seen
ChannelUnseen(k) ==
    ~IsItemSeen(config.Feeds[k].URL, config.Feeds[k].Channels[feed[k].ci],
                ItemIDOf(feed[k].newItems[feed[k].idx]))

\* the candidate filter keeps an item (one with a title or a link, whose id
\* is new in this cycle, of a cycle that is not suppressed, and not stale)
\* whenever some configured channel does not report its id as seen
KeptUnlessAllChannelsSeen ==
    \A k \in DOMAIN feed :
        (/\ FilterStep(k)
         /\ Addressable(feed[k].payload[feed[k].idx])
         /\ ItemIDOf(feed[k].payload[feed[k].idx]) \notin feed[k].seenInThisRun
         /\ ~Suppressing(k)
         /\ ~IsStale(config.Feeds[k], ItemPool[feed[k].payload[feed[k].idx]])
         /\ SomeChannelUnseen(k, feed[k].payload[feed[k].idx]))
            => Survives(k)

\* C28 as stated: the candidate filter drops an item as seen only if every
\* configured channel reports its id as seen, and the dispatch loop starts
\* a delivery task for exactly the channels that do not report the id as
\* seen at dispatch time.
C28_PerChannelDispatch ==
    [][/\ KeptUnlessAllChannelsSeen
       /\ \A k \in DOMAIN feed :
             DispatchStep(k) =>
                 IF ChannelUnseen(k) THEN TaskCreated(k) ELSE NoTaskCreated(k)]_vars

\* C28, amended: the same, where the dispatch loop starts a delivery task
\* for exactly the channels that do not report the id as seen at dispatch
\* time and for which the rendered message is not empty.
C28_PerChannelDispatchOfNonEmptyMessages ==
    [][/\ KeptUnlessAllChannelsSeen
       /\ \A k \in DOMAIN feed :
             DispatchStep(k) =>
                 IF /\ ChannelUnseen(k)
                    /\ formatMessage(ItemPool[feed[k].newItems[feed[k].idx]],
                                     config.Feeds[k].Template) # ""
                 THEN TaskCreated(k) ELSE NoTaskCreated(k)]_vars

\* an item was sent to channel @a and not to @b in the first cycle; the
\* second cycle has kept it and its dispatch has started one delivery task,
\* for @b
C28_Witness ==
    \E k \in DOMAIN feed :
        /\ cycles = 2
        /\ feed[k].pc = "wait"
        /\ config.Feeds[k].Channels = <<chA, chB>>
        /\ feed[k].newItems = <<1>>
        /\ <<config.Feeds[k].URL, chA, "g1">> \in sentOK
        /\ <<config.Feeds[k].URL, chB, "g1">> \notin sentOK
        /\ IsItemSeen(config.Feeds[k].URL, chA, "g1")
        /\ Len(tasks[k]) = 1
        /\ tasks[k][1].channel = chB
        /\ tasks[k][1].item = 1

\* the item of the candidate-loop iteration of feed k has the id resolved
\* for an earlier item of the payload (one with a title or a link)
DuplicateInCycle(k) ==
    \E i \in 1..(feed[k].idx - 1) :
        /\ Addressable(feed[k].payload[i])
        /\ ItemIDOf(feed[k].payload[i]) = ItemIDOf(feed[k].payload[feed[k].idx])

\* C29: within one feed cycle the candidate loop skips an item whose id was
\* resolved for an earlier item of the payload, whatever became of the
\* earlier item; and no cycle holds two delivery tasks for one id and one
\* configured channel.
C29_InCycleDuplicates ==
    /\ [][\A k \in DOMAIN feed :
             (/\ FilterStep(k)
              /\ Addressable(feed[k].payload[feed[k].idx])
              /\ DuplicateInCycle(k))
                 => feed'[k].newItems = feed[k].newItems]_vars
    /\ [](\A k \in DOMAIN feed : \A c \in 1..Len(config.Feeds[k].Channels) :
             \A id \in ItemIDs :
                 Cardinality(TasksFor(k, config.Feeds[k].Channels[c], id)) <= 1
                 \/ \E d \in 1..Len(config.Feeds[k].Channels) :
                        d # c /\ config.Feeds[k].Channels[d] = config.Feeds[k].Channels[c])

\* the expiration window the documentation gives a feed: its configured
\* hours, or the 30-day default when it configures none
Window(fc) ==
    IF fc.ArticleExpirationDurationHours # {}
    THEN CHOOSE h \in fc.ArticleExpirationDurationHours : TRUE
    ELSE articleExpirationDuration

\* the item carries a publish timestamp older than the feed's window
OlderThanWindow(fc, item) ==
    \E p \in item.PublishedParsed : now - p > Window(fc)

\* C30: the candidate loop skips an item whose publish timestamp is older
\* than the feed's window (its configured hours, or the 30-day default when
\* none is configured) and does not mark it seen; it skips no item without
\* a publish timestamp as stale.
C30_StaleFiltering ==
    [][\A k \in DOMAIN feed :
          FilterStep(k) =>
              LET n == feed[k].payload[feed[k].idx]
              IN  /\ OlderThanWindow(config.Feeds[k], ItemPool[n])
                     => /\ feed'[k].newItems = feed[k].newItems
                        /\ states' = states
                  /\ (/\ ItemPool[n].PublishedParsed = {}
                      /\ Addressable(n)
                      /\ ItemIDOf(n) \notin feed[k].seenInThisRun
                      /\ ~Suppressing(k)
                      /\ SomeChannelUnseen(k, n))
                     => Survives(k)]_vars

\* feed k takes its ordering pass
SortStep(k) == feed[k].pc = "sort" /\ feed'[k] # feed[k]

\* how many times item n occurs in the list
Occurrences(list, n) == Cardinality({i \in 1..Len(list) : list[i] = n})

IsTimestamped(n) == ItemPool[n].PublishedParsed # {}

IsNotTimestamped(n) == ItemPool[n].PublishedParsed = {}

\* C31: the list the ordering pass hands to dispatch is a permutation of the
\* surviving items (none dropped, none duplicated): the timestamped items
\* in ascending publish time, then the items without a timestamp in their
\* feed order.
C31_OrderingPass ==
    [][\A k \in DOMAIN feed :
          SortStep(k) =>
              LET old == feed[k].newItems
                  new == feed'[k].newItems
                  m == Len(SelectSeq(old, IsTimestamped))
              IN  /\ Len(new) = Len(old)
                  /\ \A n \in 1..Len(ItemPool) : Occurrences(new, n) = Occurrences(old, n)
                  /\ \A i \in 1..Len(new) : i <= m => IsTimestamped(new[i])
                  /\ \A i, j \in 1..m : i < j => TimeOf(new[i]) <= TimeOf(new[j])
                  /\ SubSeq(new, m + 1, Len(new)) = SelectSeq(old, IsNotTimestamped)]_vars

\* a payload whose items came newest first, with an item without a timestamp
\* last, has been ordered oldest first and is being dispatched
C31_Witness ==
    \E k \in DOMAIN feed :
        /\ feed[k].pc = "dispatch"
        /\ feed[k].payload = <<1, 2, 3>>
        /\ feed[k].newItems = <<2, 1, 3>>

\* the message rendered for item n with the template of feed k is empty
RendersEmpty(k, n) == formatMessage(ItemPool[n], config.Feeds[k].Template) = ""

\* C32: a dispatch iteration whose rendered message is empty starts no
\* delivery task, marks nothing, reports no error and sends nothing, and the
\* dispatch loop goes on with the next (item, channel); no delivery task
\* (hence no Send) ever exists for an item whose message is empty.
C32_RenderEmpty ==
    /\ [][\A k \in DOMAIN feed :
             (DispatchStep(k) /\ RendersEmpty(k, feed[k].newItems[feed[k].idx]))
                 => /\ NoTaskCreated(k)
                    /\ states' = states /\ files' = files
                    /\ errors' = errors /\ sentOK' = sentOK
                    /\ feed'[k].newItems = feed[k].newItems
                    /\ IF /\ feed[k].idx = Len(feed[k].newItems)
                          /\ feed[k].ci = Len(config.Feeds[k].Channels)
                       THEN feed'[k].pc = "wait"
                       ELSE /\ feed'[k].pc = "dispatch"
                            /\ <<feed'[k].idx, feed'[k].ci>> # <<feed[k].idx, feed[k].ci>>]_vars
    /\ [](\A k \in DOMAIN tasks : \A t \in 1..Len(tasks[k]) :
             ~RendersEmpty(k, tasks[k][t].item))

\* a cycle has dispatched an item whose message is empty and one whose
\* message is not: the only delivery task is for the second, which has been
\* sent and marked, the first is not seen, and no error is recorded
C32_Witness ==
    \E k \in DOMAIN feed :
        /\ feed[k].pc = "wait"
        /\ feed[k].newItems = <<2, 1>>
        /\ RendersEmpty(k, 2) /\ ~RendersEmpty(k, 1)
        /\ Len(tasks[k]) = 1
        /\ tasks[k][1].item = 1
        /\ tasks[k][1].pc = "done"
        /\ IsItemSeen(config.Feeds[k].URL, tasks[k][1].channel, "g1")
        /\ ~IsItemSeen(config.Feeds[k].URL, tasks[k][1].channel, "g2")
        /\ errors = <<>>

\* the bucket file of the triple does not hold its id
NotOnDisk(fs, triple) ==
    \/ GetBloomFilePath(triple[1], triple[2]) \notin DOMAIN fs
    \/ triple[3] \notin fs[GetBloomFilePath(triple[1], triple[2])].ids

\* the triple of delivery task t of feed k
TaskTriple(k, t) == <<config.Feeds[k].URL, tasks[k][t].channel, ItemIDOf(tasks[k][t].item)>>

\* a MarkItemSeen after a confirmed send has failed in this cycle
MarkAfterSendFailed ==
    \E triple \in procMarked \cap sentOK : NotOnDisk(files, triple)

\* C33: the step in which MarkItemSeen fails after a confirmed send takes
\* the delivery task to its cooldown as a successful mark does, records no
\* error and touches no other task or feed; after such a failure the cycle
\* still ends (every task done, every feed returned, ProcessFeeds returned),
\* and the error ProcessFeeds returns has entries for failed fetches only.
C33_MarkFailureNonFatal ==
    /\ [][\A k \in DOMAIN tasks : \A t \in 1..Len(tasks[k]) :
             (/\ tasks[k][t].pc = "after"
              /\ tasks[k][t].sendSuccess
              /\ Len(tasks'[k]) = Len(tasks[k])
              /\ tasks'[k][t].pc # "after"
              /\ NotOnDisk(files', TaskTriple(k, t)))
                 => /\ tasks'[k][t].pc = "cooldown"
                    /\ errors' = errors
                    /\ feed' = feed
                    /\ \A j \in DOMAIN tasks : \A u \in 1..Len(tasks[j]) :
                          <<j, u>> # <<k, t>> => tasks'[j][u] = tasks[j][u]]_vars
    /\ (MarkAfterSendFailed ~> (~running /\ FeedsUnfinished = {}
                                 /\ \A k \in DOMAIN tasks : Unfinished(k) = {}))
    /\ []((MarkAfterSendFailed /\ ~running) =>
             Len(errors) = Cardinality({k \in DOMAIN feed : feed[k].outcome = "failed"}))

\* ProcessFeeds has returned without an error although the mark after a
\* confirmed send of one feed failed, and another feed's item is sent and
\* marked on disk
C33_Witness ==
    /\ cycles > 0
    /\ ~running
    /\ errors = <<>>
    /\ MarkAfterSendFailed
    /\ \E triple \in procMarked \cap sentOK : ~NotOnDisk(files, triple)

\* C34: once the context is cancelled no ProcessFeeds call starts, even
\* with a tick pending; and the arrival of the signal changes nothing of a
\* cycle in flight, which goes on.
C34_StopSignal ==
    /\ [][ctxDone => cycles' = cycles]_vars
    /\ [][ctxDone' # ctxDone => UNCHANGED <<running, feed, tasks, errors, states, files>>]_vars

\* the in-memory map after NewStorage has loaded the first i of the files
\* its glob lists
LoadedAfter(i) == LoadFiles(SubSeq(Glob(files), 1, i), EmptyMap, files, startedAt).states

\* C35: during a NewStorage that succeeds, loading one more bucket file
\* leaves every bucket loaded before it in the map and unchanged, and after
\* it the map has a bucket for exactly the bucket files with a well-formed
\* name.
C35_LoadFrame ==
    ~startErr =>
        /\ \A i \in 1..Len(Glob(files)) : \A b \in LoadBuckets :
              (/\ HasBucket(LoadedAfter(i - 1), b[1], b[2])
               /\ Glob(files)[i] # GetBloomFilePath(b[1], b[2]))
                  => /\ HasBucket(LoadedAfter(i), b[1], b[2])
                     /\ LoadedAfter(i)[b[1]][b[2]] = LoadedAfter(i - 1)[b[1]][b[2]]
        /\ \A b \in LoadBuckets :
              HasBucket(states, b[1], b[2]) <=> GetBloomFilePath(b[1], b[2]) \in DOMAIN files

\* the canonical file path of each bucket
BucketPath == [b \in Buckets |-> GetBloomFilePath(b[1], b[2])]

\* the step is a MarkItemSeen whose saveChannelState failed: the call is
\* counted, the bucket changed in memory and the data directory did not
SaveFailedStep == marks' = marks + 1 /\ files' = files /\ states' # states

\* C36: every id passed to MarkItemSeen in this process is reported seen by
\* the bucket in memory, whether or not its save succeeded; a MarkItemSeen
\* whose save fails leaves the id in the bucket in memory with lastUpdated
\* advanced to the time of the call and the data directory as it was; a
\* step that writes a bucket file writes the ids of the bucket in memory;
\* and no step of the process takes an id out of a bucket in memory.
C36_NoRollbackOnPersistFailure ==
    /\ [](\A triple \in procMarked :
             /\ IsItemSeen(triple[1], triple[2], triple[3])
             /\ triple[3] \in states[triple[1]][triple[2]].ids)
    /\ [][SaveFailedStep =>
             \E triple \in procMarked' :
                 /\ IsItemSeen(triple[1], triple[2], triple[3])'
                 /\ GetLastUpdated(triple[1], triple[2])' = now
                 /\ \A b \in Buckets :
                       (HasBucket(states, b[1], b[2]) /\ b # <<triple[1], triple[2]>>)
                           => /\ HasBucket(states', b[1], b[2])
                              /\ states'[b[1]][b[2]] = states[b[1]][b[2]]]_vars
    /\ [][\A b \in Buckets :
             (/\ files' # files
              /\ BucketPath[b] \in DOMAIN files'
              /\ \/ BucketPath[b] \notin DOMAIN files
                 \/ files'[BucketPath[b]] # files[BucketPath[b]])
                => /\ HasBucket(states', b[1], b[2])
                   /\ files'[BucketPath[b]].ids = states'[b[1]][b[2]].ids]_vars
    /\ [][\/ \A b \in Buckets :
                HasBucket(states, b[1], b[2])
                   => /\ HasBucket(states', b[1], b[2])
                      /\ states[b[1]][b[2]].ids \subseteq states'[b[1]][b[2]].ids
          \/ Restart]_vars

\* a bucket has a file that holds g1; a later MarkItemSeen of g2 for it has
\* failed to save: g2 is seen in memory, lastUpdated is the time of that
\* call, and the file still holds g1 only
C36_Witness ==
    \E b \in Buckets :
        /\ {<<b[1], b[2], "g1">>, <<b[1], b[2], "g2">>} \subseteq procMarked
        /\ IsItemSeen(b[1], b[2], "g1") /\ IsItemSeen(b[1], b[2], "g2")
        /\ GetBloomFilePath(b[1], b[2]) \in DOMAIN files
        /\ files[GetBloomFilePath(b[1], b[2])].ids = {"g1"}
        /\ files[GetBloomFilePath(b[1], b[2])].ts < GetLastUpdated(b[1], b[2])
        /\ GetLastUpdated(b[1], b[2]) = now

\* C37: a ProcessFeeds call starts only when none is in flight; while one
\* is in flight main is inside that call (it is at its select only between
\* cycles); and a tick that fires during a cycle is buffered or dropped and
\* starts nothing.
C37_CyclesNeverOverlap ==
    /\ [][cycles' # cycles => (~running /\ running' /\ FeedsUnfinished = {}
                               /\ \A k \in DOMAIN tasks : Unfinished(k) = {})]_vars
    /\ [](running => mainPc = "ProcessFeeds")
    /\ [][(running /\ tickerC' # tickerC)
             => (tickerC' = 1 /\ UNCHANGED <<cycles, running, feed, tasks, mainPc>>)]_vars

\* a tick is buffered while the first cycle is still sending
C37_Witness ==
    /\ running
    /\ cycles = 1
    /\ tickerC = 1
    /\ mainPc = "ProcessFeeds"
    /\ \E k \in DOMAIN tasks : \E t \in 1..Len(tasks[k]) : tasks[k][t].pc = "send"

\* C39: the configuration of a cycle is the handler's configuration at the
\* start of the ProcessFeeds call and changes at no other step; an
\* UpdateConfig changes nothing of a cycle in flight; and the feeds and the
\* channels of the delivery tasks of a cycle are those of its configuration.
C39_ConfigSnapshotPerCycle ==
    /\ [][IF cycles' # cycles THEN config' = hConfig ELSE config' = config]_vars
    /\ [][hConfig' # hConfig
             => UNCHANGED <<config, running, feed, tasks, errors, cycles, states, files>>]_vars
    /\ [](running =>
             /\ DOMAIN feed = DOMAIN config.Feeds
             /\ \A k \in DOMAIN tasks : \A t \in 1..Len(tasks[k]) :
                   \E c \in 1..Len(config.Feeds[k].Channels) :
                       tasks[k][t].channel = config.Feeds[k].Channels[c])

\* the configuration was changed while the first cycle was sending: the
\* cycle goes on with the one channel of the configuration it started with
C39_Witness ==
    /\ running
    /\ cycles = 1
    /\ config = CfgOneChannel
    /\ hConfig = CfgTwoChannels
    /\ Len(tasks[1]) = 1
    /\ tasks[1][1].pc = "send"

C10_DeliveryOrder ==
    [][\A k \in DOMAIN lastPos : \A channel \in Channels :
          lastPos'[k][channel] # 0 => lastPos'[k][channel] >= lastPos[k][channel]]_vars

====
